---- MODULE Spec2Model ----
(***************************************************************************)
(* Model of the retry engine of ziptax-node (src/utils/retry.ts), of the   *)
(* error taxonomy it works on (src/exceptions.ts) and of the HTTP client   *)
(* that classifies transport failures and runs its requests through the   *)
(* retry engine (src/utils/http.ts), and of the client whose methods       *)
(* validate their parameters before they call the HTTP client              *)
(* (src/client.ts, src/utils/validation.ts).                               *)
(*                                                                         *)
(* One behaviour is one call retryWithBackoff(fn, options).  The async     *)
(* function is cut at its await points: the call of fn() (Invoke), the     *)
(* settling of fn's promise (FnResolve / FnReject, the latter running the  *)
(* whole catch block) and the firing of the sleep timer (TimerFire).       *)
(*                                                                         *)
(* JavaScript values:                                                      *)
(*   - a possibly-undefined value is <<>> (undefined) or <<v>>;            *)
(*   - maxAttempts is a JS number that need not be an integer; it is kept  *)
(*     in units of 1/Scale, so that 2.5 is <<5>> when Scale = 2;           *)
(*   - an Error object is a record; seq is the fn() invocation that        *)
(*     created it and stands for the object's identity.                    *)
(*                                                                         *)
(* State: timer is the duration of the pending sleep timer, elapsed the    *)
(* durations of the timers that have fired, transport the raw failures of  *)
(* the HTTP transport (SpecHttp), inv the local state of concurrently      *)
(* running calls (SpecPar) and client the ZiptaxClient object with the     *)
(* method call made on it (SpecClient).                                    *)
(***************************************************************************)
EXTENDS Integers, Sequences, FiniteSets, TLC

VARIABLES options, opts, pc, attempt, lastError, calls, outcomes, srCalls,
          delays, result, via, timer, elapsed, transport, inv, client

\* the state of one retryWithBackoff call
callVars == <<opts, pc, attempt, lastError, calls, outcomes, srCalls,
              delays, result, via, timer, elapsed>>

vars == <<options, opts, pc, attempt, lastError, calls, outcomes, srCalls,
          delays, result, via, timer, elapsed, transport, inv, client>>

----------------------------------------------------------------------------
(* Bounds of the model *)

\* largest maxAttempts a caller passes (whole attempts)
MaxAttemptsBound == 3

\* maxAttempts is kept in units of 1/Scale
Scale == 2

\* number of retryWithBackoff calls that run concurrently in SpecPar
NumInvocations == 2

\* the largest k of the custom predicates "attempt < k"
MaxGuard == 4

----------------------------------------------------------------------------
(* JavaScript helpers *)

Undefined == <<>>

Some(v) == <<v>>

IsDefined(x) == x # Undefined

Min(a, b) == IF a <= b THEN a ELSE b

\* Math.pow for a non-negative integer exponent
RECURSIVE MathPow(_, _)
MathPow(b, e) == IF e <= 0 THEN 1 ELSE b * MathPow(b, e - 1)

\* attempt <= maxAttempts on JS numbers; any comparison with undefined is false
NumLeq(n, m) == IsDefined(m) /\ n * Scale <= m[1]

\* attempt === maxAttempts
NumEq(n, m) == IsDefined(m) /\ n * Scale = m[1]

Digits == <<"0", "1", "2", "3", "4", "5", "6", "7", "8", "9">>

IsDigit(c) == \E d \in 1..10 : Digits[d] = c

DigitValue(c) == (CHOOSE d \in 1..10 : Digits[d] = c) - 1

\* the decimal text of a non-negative integer, as a template literal gives it
RECURSIVE NumberToString(_)
NumberToString(n) ==
    IF n < 10 THEN Digits[n + 1]
    ELSE NumberToString(n \div 10) \o Digits[(n % 10) + 1]

\* String(value) for the thrown values of the model
String(v) ==
    CASE v[1] = "string"    -> v[2]
      [] v[1] = "number"    -> IF v[2] = 42 THEN "42" ELSE "0"
      [] v[1] = "undefined" -> "undefined"

----------------------------------------------------------------------------
(* src/exceptions.ts: the error classes *)

NoValue == <<"undefined">>

MkError(name, statusCode, message, seq) ==
    [kind |-> "Error", name |-> name, statusCode |-> statusCode,
     message |-> message, value |-> NoValue, seq |-> seq,
     attempts |-> Undefined, lastError |-> Undefined,
     responseBody |-> Undefined, retryAfter |-> Undefined,
     originalError |-> Undefined]

\* responseBody is optional: <<>> when the constructor gets no third argument
ZiptaxAPIError(message, statusCode, responseBody, seq) ==
    [MkError("ZiptaxAPIError", statusCode, message, seq)
        EXCEPT !.responseBody = responseBody]

ZiptaxAuthenticationError(message, seq) ==
    [ZiptaxAPIError(message, Some(401), Undefined, seq)
        EXCEPT !.name = "ZiptaxAuthenticationError"]

ZiptaxRateLimitError(message, retryAfter, seq) ==
    [ZiptaxAPIError(message, Some(429), Undefined, seq)
        EXCEPT !.name = "ZiptaxRateLimitError", !.retryAfter = retryAfter]

ZiptaxValidationError(message, seq) ==
    MkError("ZiptaxValidationError", Undefined, message, seq)

ZiptaxNetworkError(message, originalError, seq) ==
    [MkError("ZiptaxNetworkError", Undefined, message, seq)
        EXCEPT !.originalError = originalError]

ZiptaxRetryError(message, attempts, lastErr, seq) ==
    [MkError("ZiptaxRetryError", Undefined, message, seq)
        EXCEPT !.attempts = Some(attempts), !.lastError = lastErr]

ZiptaxConfigurationError(message, seq) ==
    MkError("ZiptaxConfigurationError", Undefined, message, seq)

\* new Error(message)
PlainError(message, seq) == MkError("Error", Undefined, message, seq)

\* a thrown value that is not an Error instance
RawThrowable(v, seq) ==
    [kind |-> "raw", name |-> "", statusCode |-> Undefined,
     message |-> "", value |-> v, seq |-> seq,
     attempts |-> Undefined, lastError |-> Undefined,
     responseBody |-> Undefined, retryAfter |-> Undefined,
     originalError |-> Undefined]

\* error instanceof Error
InstanceOfError(e) == e.kind = "Error"

\* instanceof ZiptaxAPIError: the class and its two subclasses
ApiKindNames == {"ZiptaxAPIError", "ZiptaxAuthenticationError", "ZiptaxRateLimitError"}

----------------------------------------------------------------------------
(* src/utils/validation.ts *)

\* a JavaScript string value, given by its characters
Str(cs) == <<"string", cs>>

JsNull == <<"null">>

IsStr(v) == v[1] = "string"

\* the truthiness of undefined, null and strings
Truthy(v) == IsStr(v) /\ v[2] # <<>>

\* the string of n characters c
Repeat(c, n) == [i \in 1..n |-> c]

\* the characters String.prototype.trim removes that the model uses
WhiteSpace == {" ", "\t", "\n"}

\* value.trim().length === 0
TrimIsEmpty(cs) == \A i \in 1..Len(cs) : cs[i] \in WhiteSpace

\* /^[0-9]+$/.test(cs)
MatchesDigits(cs) == cs # <<>> /\ \A i \in 1..Len(cs) : IsDigit(cs[i])

\* /^[0-9]{4}-[0-9]{2}$/.test(cs)
MatchesYearMonth(cs) ==
    /\ Len(cs) = 7
    /\ \A i \in {1, 2, 3, 4, 6, 7} : IsDigit(cs[i])
    /\ cs[5] = "-"

\* pattern.test(value) for the two patterns the client uses
PatternTest(pattern, cs) ==
    CASE pattern = "^[0-9]+$" -> MatchesDigits(cs)
      [] pattern = "^[0-9]{4}-[0-9]{2}$" -> MatchesYearMonth(cs)

\* Each validator gives the error it throws, or Undefined when it returns.

validateRequired(value, fieldName) ==
    IF value = NoValue \/ value = JsNull \/ value = Str(<<>>)
    THEN Some(ZiptaxValidationError(fieldName \o " is required", 0))
    ELSE Undefined

validateMaxLength(value, maxLength, fieldName) ==
    IF Len(value[2]) > maxLength
    THEN Some(ZiptaxValidationError(
            fieldName \o " must not exceed " \o NumberToString(maxLength) \o " characters", 0))
    ELSE Undefined

validatePattern(value, pattern, fieldName, patternDescription) ==
    IF ~PatternTest(pattern, value[2])
    THEN Some(ZiptaxValidationError(
            fieldName \o " must match pattern: " \o patternDescription, 0))
    ELSE Undefined

\* variant: only the first check is made
validateApiKey_RequiredOnly(apiKey) == validateRequired(apiKey, "API key")

validateApiKey(apiKey) ==
    IF IsDefined(validateRequired(apiKey, "API key"))
    THEN validateRequired(apiKey, "API key")
    ELSE IF ~IsStr(apiKey) \/ TrimIsEmpty(apiKey[2])
         THEN Some(ZiptaxValidationError("API key must be a non-empty string", 0))
         ELSE Undefined

\* the first error of a sequence of checks that run one after the other
RECURSIVE FirstError(_)
FirstError(checks) ==
    IF checks = <<>> THEN Undefined
    ELSE IF IsDefined(Head(checks)) THEN Head(checks)
    ELSE FirstError(Tail(checks))

----------------------------------------------------------------------------
(* src/client.ts: the ZiptaxClient object *)

\* a key of a params object that is not there
Absent == <<"absent">>

\* the params argument of a method: a field the caller leaves out reads as
\* undefined
NoParams ==
    [address |-> NoValue, taxabilityCode |-> NoValue, countryCode |-> NoValue,
     historical |-> NoValue, format |-> NoValue, lat |-> NoValue, lng |-> NoValue,
     postalcode |-> NoValue]

\* phase is "config" before the constructor has run, "failed" when it has
\* thrown, "ready" once the HTTP client exists, "requesting" after a method
\* has called httpClient.get and "rejected" when a method's validation has
\* rejected; httpClient tells whether the HTTPClient has been created,
\* method and params are the method call made, gets the
\* httpClient.get calls made, error the error thrown by the constructor or
\* by the method before its request
ClientObject(phase, config) ==
    [phase |-> phase, config |-> config, httpClient |-> FALSE, method |-> "",
     params |-> NoParams, gets |-> <<>>, error |-> Undefined]

\* no ZiptaxClient takes part
NoClient == ClientObject("none", <<>>)

\* the params of a request before any key is set
NoQuery == [k \in DOMAIN NoParams |-> Absent]

\* httpClient.get(url, { params }); hasParams is FALSE for params: undefined
GetRequest(url, hasParams, query) == [url |-> url, hasParams |-> hasParams, params |-> query]

\* a || b on optional strings
OrDefault(v, d) == IF Truthy(v) THEN v ELSE d

USA == Str(<<"U", "S", "A">>)

Json == Str(<<"j", "s", "o", "n">>)

\* the limit given to validateMaxLength
MaxFieldLength == 100

\* client.ts lines 60-71: the checks of getSalesTaxByAddress, in order
AddressChecks(params) ==
    << validateRequired(params.address, "address"),
       IF IsDefined(validateRequired(params.address, "address")) THEN Undefined
       ELSE validateMaxLength(params.address, MaxFieldLength, "address"),
       IF Truthy(params.taxabilityCode)
       THEN validatePattern(params.taxabilityCode, "^[0-9]+$", "taxabilityCode",
                            "numeric string")
       ELSE Undefined,
       IF Truthy(params.historical)
       THEN validatePattern(params.historical, "^[0-9]{4}-[0-9]{2}$", "historical",
                            "YYYY-MM format")
       ELSE Undefined >>

\* client.ts lines 74-82
AddressRequest(params) ==
    GetRequest("/request/v60/", TRUE,
        [NoQuery EXCEPT !.address = params.address,
                        !.taxabilityCode = params.taxabilityCode,
                        !.countryCode = OrDefault(params.countryCode, USA),
                        !.historical = params.historical,
                        !.format = OrDefault(params.format, Json)])

\* client.ts lines 92-100: the checks of getSalesTaxByGeoLocation, in order
GeoLocationChecks(params) ==
    LET required == FirstError(<< validateRequired(params.lat, "lat"),
                                  validateRequired(params.lng, "lng") >>)
    IN  << required,
           IF IsDefined(required) THEN Undefined
           ELSE validateMaxLength(params.lat, MaxFieldLength, "lat"),
           IF IsDefined(required) THEN Undefined
           ELSE validateMaxLength(params.lng, MaxFieldLength, "lng"),
           IF Truthy(params.historical)
           THEN validatePattern(params.historical, "^[0-9]{4}-[0-9]{2}$", "historical",
                                "YYYY-MM format")
           ELSE Undefined >>

\* client.ts lines 103-111
GeoLocationRequest(params) ==
    GetRequest("/request/v60/", TRUE,
        [NoQuery EXCEPT !.lat = params.lat,
                        !.lng = params.lng,
                        !.countryCode = OrDefault(params.countryCode, USA),
                        !.historical = params.historical,
                        !.format = OrDefault(params.format, Json)])

\* client.ts lines 120-122
AccountMetricsRequest(params) ==
    IF Truthy(params.format)
    THEN GetRequest("/account/v60/metrics", TRUE, [NoQuery EXCEPT !.format = params.format])
    ELSE GetRequest("/account/v60/metrics", FALSE, NoQuery)

\* the methods the class ZiptaxClient defines
ZiptaxClientMethods ==
    {"getSalesTaxByAddress", "getSalesTaxByGeoLocation", "getAccountMetrics", "getConfig"}

\* calling a property that is not a function throws a TypeError
NotAFunction(method) == MkError("TypeError", Undefined, method \o " is not a function", 0)

----------------------------------------------------------------------------
(* src/utils/retry.ts *)

\* the custom shouldRetry functions callers pass
CustomPredicates == {"always", "never"}

\* variant: a rate-limited request is retried as well
DefaultShouldRetry_RetriesRateLimit(error, attemptNo) ==
    \/ error.name \in {"ZiptaxNetworkError", "ZiptaxRateLimitError"}
    \/ /\ error.name = "ZiptaxAPIError"
       /\ IsDefined(error.statusCode)
       /\ error.statusCode[1] >= 500

\* variant: the status threshold is 400 instead of 500
DefaultShouldRetry_From400(error, attemptNo) ==
    \/ error.name = "ZiptaxNetworkError"
    \/ /\ error.name = "ZiptaxAPIError"
       /\ IsDefined(error.statusCode)
       /\ error.statusCode[1] >= 400

DefaultShouldRetry(error, attemptNo) ==
    IF error.name = "ZiptaxNetworkError" THEN TRUE
    ELSE IF error.name = "ZiptaxAPIError"
         THEN IF IsDefined(error.statusCode) /\ error.statusCode[1] # 0
              THEN error.statusCode[1] >= 500
              ELSE FALSE
         ELSE FALSE

DEFAULT_RETRY_OPTIONS ==
    [maxAttempts |-> Some(3 * Scale), initialDelay |-> 1000, maxDelay |-> 10000,
     backoffMultiplier |-> 2, shouldRetry |-> "default"]

\* the name of the custom predicate (error, attempt) => attempt < k
AttemptBelow(k) == "attempt < " \o NumberToString(k)

AttemptPredicates == {AttemptBelow(k) : k \in 1..MaxGuard}

\* the k of the predicate named p
GuardOf(p) == CHOOSE k \in 1..MaxGuard : p = AttemptBelow(k)

\* the README's predicate:
\* (error, attempt) => attempt < 3 && error.name === 'ZiptaxNetworkError'
ReadmeShouldRetry(error, attemptNo) ==
    attemptNo < 3 /\ error.name = "ZiptaxNetworkError"

\* variant: the predicate is given the number of earlier attempts (0-based)
ApplyShouldRetry_ZeroBasedAttempt(p, error, attemptNo) ==
    CASE p = "default" -> DefaultShouldRetry(error, attemptNo - 1)
      [] p = "always"  -> TRUE
      [] p = "never"   -> FALSE
      [] p = "readme"  -> ReadmeShouldRetry(error, attemptNo - 1)
      [] p \in AttemptPredicates -> attemptNo - 1 < GuardOf(p)

\* opts.shouldRetry(error, attempt)
ApplyShouldRetry(p, error, attemptNo) ==
    CASE p = "default" -> DefaultShouldRetry(error, attemptNo)
      [] p = "always"  -> TRUE
      [] p = "never"   -> FALSE
      [] p = "readme"  -> ReadmeShouldRetry(error, attemptNo)
      [] p \in AttemptPredicates -> attemptNo < GuardOf(p)

\* variant: the spread order is reversed, the defaults win
MergeOptions_DefaultsWin(o) == DEFAULT_RETRY_OPTIONS

\* { ...DEFAULT_RETRY_OPTIONS, ...options }
MergeOptions(o) ==
    [k \in DOMAIN DEFAULT_RETRY_OPTIONS |->
        IF k \in DOMAIN o THEN o[k] ELSE DEFAULT_RETRY_OPTIONS[k]]

\* variant: the delay is not capped by maxDelay
calculateDelay_Unclamped(attemptNo, o) ==
    o.initialDelay * MathPow(o.backoffMultiplier, attemptNo - 1)

\* variant: the exponent is the attempt index instead of attempt - 1
calculateDelay_ExponentAttempt(attemptNo, o) ==
    Min(o.initialDelay * MathPow(o.backoffMultiplier, attemptNo), o.maxDelay)

calculateDelay(attemptNo, o) ==
    Min(o.initialDelay * MathPow(o.backoffMultiplier, attemptNo - 1), o.maxDelay)

\* variant: the loop admits one attempt beyond maxAttempts
LoopCondition_OneMore(attemptNo, o) == NumLeq(attemptNo - 1, o.maxAttempts)

\* the loop condition attempt <= opts.maxAttempts
LoopCondition(attemptNo, o) == NumLeq(attemptNo, o.maxAttempts)

\* variant: the last attempt is recognised one attempt early
IsLastAttempt_OneEarly(attemptNo, o) == NumEq(attemptNo + 1, o.maxAttempts)

\* variant: the last attempt is recognised only beyond maxAttempts
IsLastAttempt_Beyond(attemptNo, o) ==
    IsDefined(o.maxAttempts) /\ attemptNo * Scale > o.maxAttempts[1]

IsLastAttempt(attemptNo, o) == NumEq(attemptNo, o.maxAttempts)

\* variant: the thrown value is kept as it is
CaptureError_KeepsRaw(e) == e

\* variant: every thrown value is wrapped in a new Error
CaptureError_AlwaysWraps(e) ==
    IF InstanceOfError(e) THEN PlainError(e.message, e.seq)
    ELSE PlainError(String(e.value), e.seq)

\* lastError = error instanceof Error ? error : new Error(String(error))
CaptureError(e) ==
    IF InstanceOfError(e) THEN e ELSE PlainError(String(e.value), e.seq)

\* variant: the predicate's verdict is ignored
StopsAfter_IgnoresPredicate(attemptNo, o, err) == IsLastAttempt(attemptNo, o)

\* the stop condition of the catch block
StopsAfter(attemptNo, o, err) ==
    IsLastAttempt(attemptNo, o) \/ ~ApplyShouldRetry(o.shouldRetry, err, attemptNo)

\* variant: the error reports the attempts made instead of maxAttempts
ExhaustedError_CountsAttempts(o, attemptNo, lastErr) ==
    ZiptaxRetryError("Maximum retry attempts exceeded", Some(attemptNo * Scale), lastErr, 0)

\* the error of the fall-through throw
ExhaustedError(o, attemptNo, lastErr) ==
    ZiptaxRetryError("Maximum retry attempts exceeded", o.maxAttempts, lastErr, 0)

----------------------------------------------------------------------------
(* src/utils/http.ts: the error classifier *)

\* a response body (response.data): a string, an object or null; a field
\* of an object is absent (<<>>) or a typed value such as <<"string", "x">>;
\* detail stands for the fields of an object other than message and error
StringBody(t) ==
    [type |-> "string", text |-> t, message |-> Undefined, error |-> Undefined,
     detail |-> Undefined]

DetailedBody(message, error, detail) ==
    [type |-> "object", text |-> "", message |-> message, error |-> error,
     detail |-> detail]

ObjectBody(message, error) == DetailedBody(message, error, Undefined)

NullBody ==
    [type |-> "null", text |-> "", message |-> Undefined, error |-> Undefined,
     detail |-> Undefined]

\* typeof v === 'string' for a field of an object body
IsStringField(v) == IsDefined(v) /\ v[1] = "string"

\* variant: the error field is preferred to the message field
extractErrorMessage_ErrorFirst(data) ==
    IF data.type = "string" THEN Some(data.text)
    ELSE IF data.type = "object"
         THEN IF IsStringField(data.error) THEN Some(data.error[2])
              ELSE IF IsStringField(data.message) THEN Some(data.message[2])
              ELSE Undefined
         ELSE Undefined

\* lines 157-171
extractErrorMessage(data) ==
    IF data.type = "string" THEN Some(data.text)
    ELSE IF data.type = "object"
         THEN IF IsStringField(data.message) THEN Some(data.message[2])
              ELSE IF IsStringField(data.error) THEN Some(data.error[2])
              ELSE Undefined
         ELSE Undefined

\* a || b on an optional string: undefined and the empty string are falsy
OrElse(a, b) == IF IsDefined(a) /\ a[1] # "" THEN a[1] ELSE b

NaN == <<"NaN", 0>>

Number(n) == <<"number", n>>

\* the value of the longest prefix of digits of the characters cs, given
\* the value acc of the digits read so far
RECURSIVE DigitsPrefixValue(_, _)
DigitsPrefixValue(cs, acc) ==
    IF cs = <<>> \/ ~IsDigit(Head(cs)) THEN acc
    ELSE DigitsPrefixValue(Tail(cs), acc * 10 + DigitValue(Head(cs)))

RECURSIVE SkipSpaces(_)
SkipSpaces(cs) == IF cs # <<>> /\ Head(cs) = " " THEN SkipSpaces(Tail(cs)) ELSE cs

\* parseInt(cs, 10) of a string given as its characters: leading blanks are
\* skipped, a sign is accepted, the digits up to the first other character
\* are read, and NaN results when there is no digit to read
ParseInt(cs) ==
    LET t      == SkipSpaces(cs)
        signed == t # <<>> /\ Head(t) \in {"-", "+"}
        body   == IF signed THEN Tail(t) ELSE t
    IN  IF body = <<>> \/ ~IsDigit(Head(body)) THEN NaN
        ELSE IF signed /\ Head(t) = "-"
             THEN Number(0 - DigitsPrefixValue(body, 0))
             ELSE Number(DigitsPrefixValue(body, 0))

\* a failure of axiosInstance.request: an axios error (with or without a
\* response) or any other thrown value
AxiosFailure(message, response) ==
    [isAxiosError |-> TRUE, message |-> message, response |-> response,
     thrown |-> Undefined]

OtherFailure(value) ==
    [isAxiosError |-> FALSE, message |-> "", response |-> Undefined,
     thrown |-> Some(value)]

Response(status, data, retryAfterHeader) ==
    [status |-> status, data |-> data, headers |-> [retryAfter |-> retryAfterHeader]]

\* variant: the transport failure is not kept in the network error
NetworkErrorOf_NoOriginal(error, seq) ==
    ZiptaxNetworkError(OrElse(Some(error.message), "Network request failed"), Undefined, seq)

\* lines 124-126
NetworkErrorOf(error, seq) ==
    ZiptaxNetworkError(OrElse(Some(error.message), "Network request failed"), Some(error), seq)

\* variant: only 401 is an authentication failure
IsAuthStatus_Only401(status) == status = 401

\* line 131
IsAuthStatus(status) == status = 401 \/ status = 403

\* lines 132-134
AuthenticationErrorOf(response, seq) ==
    ZiptaxAuthenticationError(
        OrElse(extractErrorMessage(response.data), "Authentication failed"), seq)

\* lines 139-143; a header is falsy when missing or empty
RateLimitErrorOf(response, seq) ==
    LET retryAfter == response.headers.retryAfter
    IN  ZiptaxRateLimitError(
            OrElse(extractErrorMessage(response.data), "Rate limit exceeded"),
            IF IsDefined(retryAfter) /\ retryAfter[1] # <<>>
            THEN ParseInt(retryAfter[1]) ELSE Undefined,
            seq)

\* variant: the response body is not passed to the error
GenericErrorOf_NoBody(response, seq) ==
    ZiptaxAPIError(
        OrElse(extractErrorMessage(response.data),
               "API request failed with status " \o NumberToString(response.status)),
        Some(response.status), Undefined, seq)

\* lines 147-151
GenericErrorOf(response, seq) ==
    ZiptaxAPIError(
        OrElse(extractErrorMessage(response.data),
               "API request failed with status " \o NumberToString(response.status)),
        Some(response.status), Some(response.data), seq)

\* variant: a failure that is not an axios error is reported as a network error
handleError_NonAxiosAsNetwork(error, seq) ==
    IF ~error.isAxiosError
    THEN ZiptaxNetworkError(
            IF InstanceOfError(error.thrown[1]) THEN error.thrown[1].message
            ELSE String(error.thrown[1].value), Undefined, seq)
    ELSE IF ~IsDefined(error.response) THEN NetworkErrorOf(error, seq)
    ELSE IF IsAuthStatus(error.response[1].status)
         THEN AuthenticationErrorOf(error.response[1], seq)
    ELSE IF error.response[1].status = 429 THEN RateLimitErrorOf(error.response[1], seq)
    ELSE GenericErrorOf(error.response[1], seq)

\* HTTPClient.handleError; seq is the request whose failure is classified
handleError(error, seq) ==
    IF ~error.isAxiosError
    THEN IF InstanceOfError(error.thrown[1]) THEN error.thrown[1]
         ELSE PlainError(String(error.thrown[1].value), seq)
    ELSE IF ~IsDefined(error.response) THEN NetworkErrorOf(error, seq)
    ELSE IF IsAuthStatus(error.response[1].status)
         THEN AuthenticationErrorOf(error.response[1], seq)
    ELSE IF error.response[1].status = 429 THEN RateLimitErrorOf(error.response[1], seq)
    ELSE GenericErrorOf(error.response[1], seq)

\* the AxiosError object itself, as makeRequest would throw it unclassified
AxiosErrorObject(error, seq) == MkError("AxiosError", Undefined, error.message, seq)

\* HTTPClient constructor, line 36: config.retryOptions || {}
HTTPClientRetryOptions(config) ==
    IF "retryOptions" \in DOMAIN config THEN config.retryOptions ELSE <<>>

----------------------------------------------------------------------------
(* The inputs of a call *)

\* values a caller gives maxAttempts: -1, 0, 0.5, 1, ... MaxAttemptsBound, or undefined
MaxAttemptsValues == {Some(h) : h \in (-Scale)..(MaxAttemptsBound * Scale)} \cup {Undefined}

InitialDelayValues == {0, 500}

MaxDelayValues == {100, 500, 2000}

BackoffMultiplierValues == {1, 100}

\* the option object with exactly the fields the caller chose to supply;
\* each argument is the empty set (field omitted) or a singleton
BuildOptions(ma, idl, mdl, bm, sr) ==
    LET chosen == [maxAttempts |-> ma, initialDelay |-> idl, maxDelay |-> mdl,
                   backoffMultiplier |-> bm, shouldRetry |-> sr]
        present == {k \in DOMAIN chosen : chosen[k] # {}}
    IN  [k \in present |-> CHOOSE v \in chosen[k] : TRUE]

Optional(S) == {{}} \cup {{v} : v \in S}

\* the values fn() rejects with at its invocation number seq
ThrownValues(seq) ==
    { ZiptaxNetworkError("Network error", Undefined, seq),
      ZiptaxAPIError("Server error", Some(500), Undefined, seq),
      ZiptaxAPIError("Unavailable", Some(503), Undefined, seq),
      ZiptaxAPIError("Bad request", Some(400), Undefined, seq),
      ZiptaxAPIError("Client closed", Some(499), Undefined, seq),
      ZiptaxAPIError("No status", Undefined, Undefined, seq),
      ZiptaxAuthenticationError("Authentication failed", seq),
      ZiptaxRateLimitError("Rate limit exceeded", Number(60), seq),
      ZiptaxValidationError("Invalid", seq),
      PlainError("Custom error", seq),
      RawThrowable(<<"string", "boom">>, seq),
      RawThrowable(<<"number", 42>>, seq),
      RawThrowable(NoValue, seq) }

\* the value fn() resolves with at its invocation number seq
ResolvedValues(seq) == { [value |-> "success", seq |-> seq] }

\* the response bodies of the model
Bodies ==
    { StringBody("Bad Request Error"),
      StringBody(""),
      ObjectBody(<<"string", "Unauthorized">>, <<"string", "Denied">>),
      ObjectBody(Undefined, <<"string", "Invalid parameters">>),
      ObjectBody(<<"number", "5">>, Undefined),
      ObjectBody(<<"number", "5">>, <<"string", "Denied">>),
      ObjectBody(<<"string", "">>, <<"string", "Denied">>),
      ObjectBody(Undefined, Undefined),
      DetailedBody(Undefined, Undefined, <<"string", "Quota exhausted">>),
      DetailedBody(<<"string", "Unauthorized">>, Undefined, <<"string", "Quota exhausted">>),
      NullBody }

\* the statuses of failed responses
Statuses == {400, 401, 403, 404, 429, 499, 500, 503}

\* the values of the retry-after header: missing, "", "60", "0", "60s", "abc"
RetryAfterHeaders ==
    { Undefined, Some(<<>>), Some(<<"6", "0">>), Some(<<"0">>),
      Some(<<"6", "0", "s">>), Some(<<"a", "b", "c">>) }

\* the failures of axiosInstance.request at request number seq
TransportFailures(seq) ==
    { AxiosFailure(m, Undefined) : m \in {"Network Error", ""} }
    \cup { AxiosFailure("Request failed", Some(Response(st, b, Undefined))) :
            st \in Statuses, b \in Bodies }
    \cup { AxiosFailure("Request failed", Some(Response(429, StringBody(""), h))) :
            h \in RetryAfterHeaders }
    \cup { AxiosFailure("timeout", Some(Response(429, ObjectBody(Undefined, Undefined), h))) :
            h \in RetryAfterHeaders }
    \cup { OtherFailure(PlainError("Custom error", seq)),
           OtherFailure(ZiptaxNetworkError("Socket closed", Undefined, seq)),
           OtherFailure(RawThrowable(<<"string", "string error">>, seq)),
           OtherFailure(RawThrowable(<<"number", 42>>, seq)) }

\* the HTTPClientConfig objects of the model, as far as retries go
HTTPClientConfigs ==
    { <<>> } \cup
    { [retryOptions |-> BuildOptions(ma, {}, {}, {}, sr)] :
        ma \in Optional(MaxAttemptsValues), sr \in Optional({"never"}) }

----------------------------------------------------------------------------
(* The state machine of one retryWithBackoff call *)

Init ==
    /\ \E ma \in Optional(MaxAttemptsValues), idl \in Optional(InitialDelayValues),
          mdl \in Optional(MaxDelayValues), bm \in Optional(BackoffMultiplierValues),
          sr \in Optional(CustomPredicates) :
            options = BuildOptions(ma, idl, mdl, bm, sr)
    /\ opts = DEFAULT_RETRY_OPTIONS
    /\ pc = "called"
    /\ attempt = 0
    /\ lastError = Undefined
    /\ calls = 0
    /\ outcomes = <<>>
    /\ srCalls = <<>>
    /\ delays = <<>>
    /\ result = Undefined
    /\ via = "none"
    /\ timer = Undefined
    /\ elapsed = <<>>
    /\ transport = <<>>
    /\ inv = <<>>
    /\ client = NoClient

\* lines 60-63: merge the options, declare lastError, initialise the loop
Enter ==
    /\ pc = "called"
    /\ opts' = MergeOptions(options)
    /\ lastError' = Undefined
    /\ attempt' = 1
    /\ pc' = "loop"
    /\ UNCHANGED <<options, calls, outcomes, srCalls, delays, result, via,
                   timer, elapsed, transport, inv, client>>

\* lines 63-65: the loop condition holds and fn() is called
Invoke ==
    /\ pc = "loop"
    /\ LoopCondition(attempt, opts)
    /\ calls' = calls + 1
    /\ pc' = "awaiting"
    /\ UNCHANGED <<options, opts, attempt, lastError, outcomes, srCalls, delays, result, via,
                   timer, elapsed, transport, inv, client>>

\* variant: the backoff delay is also waited before a value is returned
FnResolve_DelaysFirst ==
    /\ pc = "awaiting"
    /\ \E v \in ResolvedValues(calls) :
        /\ outcomes' = Append(outcomes, [ok |-> TRUE, value |-> Some(v), thrown |-> Undefined])
        /\ result' = Some(v)
    /\ delays' = Append(delays, calculateDelay(attempt, opts))
    /\ pc' = "resolved"
    /\ via' = "return"
    /\ UNCHANGED <<options, opts, attempt, lastError, calls, srCalls,
                   timer, elapsed, transport, inv, client>>

\* line 65: fn()'s promise resolves and its value is returned
FnResolve ==
    /\ pc = "awaiting"
    /\ \E v \in ResolvedValues(calls) :
        /\ outcomes' = Append(outcomes, [ok |-> TRUE, value |-> Some(v), thrown |-> Undefined])
        /\ result' = Some(v)
    /\ pc' = "resolved"
    /\ via' = "return"
    /\ UNCHANGED <<options, opts, attempt, lastError, calls, srCalls, delays,
                   timer, elapsed, transport, inv, client>>

\* variant: sleep(delay) is started but not awaited, the loop goes on at once
Catch_SleepNotAwaited(e) ==
    LET err  == CaptureError(e)
        sr   == ApplyShouldRetry(opts.shouldRetry, err, attempt)
        stop == StopsAfter(attempt, opts, err)
    IN  /\ outcomes' = Append(outcomes, [ok |-> FALSE, value |-> Undefined, thrown |-> Some(e)])
        /\ lastError' = Some(err)
        /\ srCalls' = Append(srCalls, [error |-> err, attempt |-> attempt, result |-> sr])
        /\ IF stop
           THEN /\ result' = Some(err)
                /\ pc' = "rejected"
                /\ via' = "throw"
                /\ UNCHANGED <<delays, timer, attempt>>
           ELSE /\ delays' = Append(delays, calculateDelay(attempt, opts))
                /\ timer' = Some(calculateDelay(attempt, opts))
                /\ attempt' = attempt + 1
                /\ pc' = "loop"
                /\ UNCHANGED <<result, via>>
        /\ UNCHANGED <<options, opts, calls, elapsed, inv, client>>

\* variant: the predicate is not evaluated on the last attempt
Catch_SkipsPredicateOnLastAttempt(e) ==
    LET err  == CaptureError(e)
        sr   == ApplyShouldRetry(opts.shouldRetry, err, attempt)
        stop == StopsAfter(attempt, opts, err)
    IN  /\ outcomes' = Append(outcomes, [ok |-> FALSE, value |-> Undefined, thrown |-> Some(e)])
        /\ lastError' = Some(err)
        /\ srCalls' = IF IsLastAttempt(attempt, opts) THEN srCalls
                      ELSE Append(srCalls, [error |-> err, attempt |-> attempt, result |-> sr])
        /\ IF stop
           THEN /\ result' = Some(err)
                /\ pc' = "rejected"
                /\ via' = "throw"
                /\ UNCHANGED <<delays, timer>>
           ELSE /\ delays' = Append(delays, calculateDelay(attempt, opts))
                /\ timer' = Some(calculateDelay(attempt, opts))
                /\ pc' = "sleeping"
                /\ UNCHANGED <<result, via>>
        /\ UNCHANGED <<options, opts, attempt, calls, elapsed, inv, client>>

\* variant: the delay is computed and recorded before the decision to stop
Catch_DelaysBeforeRethrow(e) ==
    LET err  == CaptureError(e)
        sr   == ApplyShouldRetry(opts.shouldRetry, err, attempt)
        stop == StopsAfter(attempt, opts, err)
    IN  /\ outcomes' = Append(outcomes, [ok |-> FALSE, value |-> Undefined, thrown |-> Some(e)])
        /\ lastError' = Some(err)
        /\ srCalls' = Append(srCalls, [error |-> err, attempt |-> attempt, result |-> sr])
        /\ delays' = Append(delays, calculateDelay(attempt, opts))
        /\ IF stop
           THEN /\ result' = Some(err)
                /\ pc' = "rejected"
                /\ via' = "throw"
                /\ UNCHANGED timer
           ELSE /\ timer' = Some(calculateDelay(attempt, opts))
                /\ pc' = "sleeping"
                /\ UNCHANGED <<result, via>>
        /\ UNCHANGED <<options, opts, attempt, calls, elapsed, inv, client>>

\* variant: the promise of sleep is never resolved, no timer is pending
Catch_SleepNeverResolves(e) ==
    LET err  == CaptureError(e)
        sr   == ApplyShouldRetry(opts.shouldRetry, err, attempt)
        stop == StopsAfter(attempt, opts, err)
    IN  /\ outcomes' = Append(outcomes, [ok |-> FALSE, value |-> Undefined, thrown |-> Some(e)])
        /\ lastError' = Some(err)
        /\ srCalls' = Append(srCalls, [error |-> err, attempt |-> attempt, result |-> sr])
        /\ IF stop
           THEN /\ result' = Some(err)
                /\ pc' = "rejected"
                /\ via' = "throw"
                /\ UNCHANGED <<delays, timer>>
           ELSE /\ delays' = Append(delays, calculateDelay(attempt, opts))
                /\ timer' = Undefined
                /\ pc' = "sleeping"
                /\ UNCHANGED <<result, via>>
        /\ UNCHANGED <<options, opts, attempt, calls, elapsed, inv, client>>

\* variant: the catch block reads the caller's options object again instead
\* of the copy made when the call started
Catch_ReadsCallerOptions(e) ==
    LET err  == CaptureError(e)
        now  == MergeOptions(options)
        sr   == ApplyShouldRetry(now.shouldRetry, err, attempt)
        stop == StopsAfter(attempt, now, err)
    IN  /\ outcomes' = Append(outcomes, [ok |-> FALSE, value |-> Undefined, thrown |-> Some(e)])
        /\ lastError' = Some(err)
        /\ srCalls' = Append(srCalls, [error |-> err, attempt |-> attempt, result |-> sr])
        /\ IF stop
           THEN /\ result' = Some(err)
                /\ pc' = "rejected"
                /\ via' = "throw"
                /\ UNCHANGED <<delays, timer>>
           ELSE /\ delays' = Append(delays, calculateDelay(attempt, now))
                /\ timer' = Some(calculateDelay(attempt, now))
                /\ pc' = "sleeping"
                /\ UNCHANGED <<result, via>>
        /\ UNCHANGED <<options, opts, attempt, calls, elapsed, inv, client>>

\* variant: the retryAfter hint of the error, in seconds, replaces the
\* computed delay
Catch_HonoursRetryAfter(e) ==
    LET err  == CaptureError(e)
        sr   == ApplyShouldRetry(opts.shouldRetry, err, attempt)
        stop == StopsAfter(attempt, opts, err)
        wait == IF IsDefined(err.retryAfter) THEN err.retryAfter[2] * 1000
                ELSE calculateDelay(attempt, opts)
    IN  /\ outcomes' = Append(outcomes, [ok |-> FALSE, value |-> Undefined, thrown |-> Some(e)])
        /\ lastError' = Some(err)
        /\ srCalls' = Append(srCalls, [error |-> err, attempt |-> attempt, result |-> sr])
        /\ IF stop
           THEN /\ result' = Some(err)
                /\ pc' = "rejected"
                /\ via' = "throw"
                /\ UNCHANGED <<delays, timer>>
           ELSE /\ delays' = Append(delays, wait)
                /\ timer' = Some(wait)
                /\ pc' = "sleeping"
                /\ UNCHANGED <<result, via>>
        /\ UNCHANGED <<options, opts, attempt, calls, elapsed, inv, client>>

\* lines 66-77: the catch block for the thrown value e, up to the throw or
\* up to the start of the sleep timer
Catch(e) ==
    LET err  == CaptureError(e)
        sr   == ApplyShouldRetry(opts.shouldRetry, err, attempt)
        stop == StopsAfter(attempt, opts, err)
    IN  /\ outcomes' = Append(outcomes, [ok |-> FALSE, value |-> Undefined, thrown |-> Some(e)])
        /\ lastError' = Some(err)
        /\ srCalls' = Append(srCalls, [error |-> err, attempt |-> attempt, result |-> sr])
        /\ IF stop
           THEN /\ result' = Some(err)
                /\ pc' = "rejected"
                /\ via' = "throw"
                /\ UNCHANGED <<delays, timer>>
           ELSE /\ delays' = Append(delays, calculateDelay(attempt, opts))
                /\ timer' = Some(calculateDelay(attempt, opts))
                /\ pc' = "sleeping"
                /\ UNCHANGED <<result, via>>
        /\ UNCHANGED <<options, opts, attempt, calls, elapsed, inv, client>>

\* line 66: fn()'s promise rejects and the catch block runs
FnReject ==
    /\ pc = "awaiting"
    /\ \E e \in ThrownValues(calls) : Catch(e)
    /\ UNCHANGED transport

\* variant: the attempt index is advanced twice
TimerFire_SkipsAnAttempt ==
    /\ pc = "sleeping"
    /\ IsDefined(timer)
    /\ elapsed' = Append(elapsed, timer[1])
    /\ timer' = Undefined
    /\ attempt' = attempt + 2
    /\ pc' = "loop"
    /\ UNCHANGED <<options, opts, lastError, calls, outcomes, srCalls, delays, result, via,
                   transport, inv, client>>

\* variant: a signal arriving during the delay abandons the call
TimerFire_Abandons ==
    /\ pc = "sleeping"
    /\ IsDefined(timer)
    /\ timer' = Undefined
    /\ result' = lastError
    /\ via' = "throw"
    /\ pc' = "rejected"
    /\ UNCHANGED <<options, opts, attempt, lastError, calls, outcomes, srCalls, delays,
                   elapsed, transport, inv, client>>

\* lines 77-79 and 63: the timer fires, the loop increments attempt
TimerFire ==
    /\ pc = "sleeping"
    /\ IsDefined(timer)
    /\ elapsed' = Append(elapsed, timer[1])
    /\ timer' = Undefined
    /\ attempt' = attempt + 1
    /\ pc' = "loop"
    /\ UNCHANGED <<options, opts, lastError, calls, outcomes, srCalls, delays, result, via,
                   transport, inv, client>>

\* lines 63 and 81-86: the loop condition fails and the function falls through
FallThrough ==
    /\ pc = "loop"
    /\ ~LoopCondition(attempt, opts)
    /\ result' = Some(ExhaustedError(opts, attempt, lastError))
    /\ pc' = "rejected"
    /\ via' = "fallthrough"
    /\ UNCHANGED <<options, opts, attempt, lastError, calls, outcomes, srCalls, delays,
                   timer, elapsed, transport, inv, client>>

Next ==
    \/ Enter
    \/ Invoke
    \/ FnResolve
    \/ FnReject
    \/ TimerFire
    \/ FallThrough

Spec == Init /\ [][Next]_vars

\* The same call when the event loop runs every continuation that is ready
\* (Enter, Invoke, FallThrough), every promise of fn settles and every sleep
\* timer fires.
Fairness ==
    /\ WF_vars(Enter)
    /\ WF_vars(Invoke)
    /\ WF_vars(FnResolve \/ FnReject)
    /\ WF_vars(TimerFire)
    /\ WF_vars(FallThrough)

SpecLive == Init /\ [][Next]_vars /\ Fairness

----------------------------------------------------------------------------
(* HTTPClient.request: retryWithBackoff(makeRequest, this.retryOptions) *)

InitHttp ==
    /\ \E config \in HTTPClientConfigs : options = HTTPClientRetryOptions(config)
    /\ opts = DEFAULT_RETRY_OPTIONS
    /\ pc = "called"
    /\ attempt = 0
    /\ lastError = Undefined
    /\ calls = 0
    /\ outcomes = <<>>
    /\ srCalls = <<>>
    /\ delays = <<>>
    /\ result = Undefined
    /\ via = "none"
    /\ timer = Undefined
    /\ elapsed = <<>>
    /\ transport = <<>>
    /\ inv = <<>>
    /\ client = NoClient

\* variant: makeRequest rethrows the axios error without classifying it
HttpReject_Unclassified ==
    /\ pc = "awaiting"
    /\ \E f \in TransportFailures(calls) :
        /\ Catch(IF f.isAxiosError THEN AxiosErrorObject(f, calls) ELSE handleError(f, calls))
        /\ transport' = Append(transport, f)

\* lines 103-107: the request fails, makeRequest throws handleError(error)
\* and the catch block of retryWithBackoff runs
HttpReject ==
    /\ pc = "awaiting"
    /\ \E f \in TransportFailures(calls) :
        /\ Catch(handleError(f, calls))
        /\ transport' = Append(transport, f)

NextHttp ==
    \/ Enter
    \/ Invoke
    \/ FnResolve
    \/ HttpReject
    \/ TimerFire
    \/ FallThrough

SpecHttp == InitHttp /\ [][NextHttp]_vars

----------------------------------------------------------------------------
(* retryWithBackoff under predicates that look at the attempt argument *)

\* the retryOptions of the README's "Custom Retry Configuration"
ReadmeMaxAttempts == 5

ReadmeRetryOptions ==
    [maxAttempts |-> Some(ReadmeMaxAttempts * Scale), initialDelay |-> 2000,
     maxDelay |-> 30000, backoffMultiplier |-> 2, shouldRetry |-> "readme"]

InitCustom ==
    /\ \/ options = ReadmeRetryOptions
       \/ \E ma \in Optional(MaxAttemptsValues \cup {Some(ReadmeMaxAttempts * Scale)}),
             sr \in AttemptPredicates \cup {"readme"} :
                options = BuildOptions(ma, {}, {}, {}, {sr})
    /\ opts = DEFAULT_RETRY_OPTIONS
    /\ pc = "called"
    /\ attempt = 0
    /\ lastError = Undefined
    /\ calls = 0
    /\ outcomes = <<>>
    /\ srCalls = <<>>
    /\ delays = <<>>
    /\ result = Undefined
    /\ via = "none"
    /\ timer = Undefined
    /\ elapsed = <<>>
    /\ transport = <<>>
    /\ inv = <<>>
    /\ client = NoClient

SpecCustom == InitCustom /\ [][Next]_vars

-----------------------------------------------------------------------------
(* retryWithBackoff while the caller changes the options object it passed *)

\* the option objects of a caller that sets maxAttempts and, sometimes,
\* initialDelay, and rewrites these fields while the call runs
MutableOptions ==
    { BuildOptions({ma}, idl, {}, {}, {}) :
        ma \in {Some(0), Some(Scale), Some(MaxAttemptsBound * Scale)},
        idl \in Optional(InitialDelayValues \ {0}) }

InitMut ==
    /\ options \in MutableOptions
    /\ opts = DEFAULT_RETRY_OPTIONS
    /\ pc = "called"
    /\ attempt = 0
    /\ lastError = Undefined
    /\ calls = 0
    /\ outcomes = <<>>
    /\ srCalls = <<>>
    /\ delays = <<>>
    /\ result = Undefined
    /\ via = "none"
    /\ timer = Undefined
    /\ elapsed = <<>>
    /\ transport = <<>>
    /\ inv = <<>>
    /\ client = NoClient

\* lines 7-18 and 58: the fields of RetryOptions are writable and the caller
\* keeps its reference to the object it passed; between two steps of the
\* call it assigns to fields of that object
MutateOptions ==
    /\ pc \in {"loop", "awaiting", "sleeping"}
    /\ \E o \in MutableOptions :
        /\ o # options
        /\ options' = o
    /\ UNCHANGED <<callVars, transport, inv, client>>

NextMut ==
    \/ Next
    \/ MutateOptions

SpecMut == InitMut /\ [][NextMut]_vars

----------------------------------------------------------------------------
(* Concurrent calls: several retryWithBackoff calls issued with the same   *)
(* options object (HTTPClient.request passes this.retryOptions to each).   *)
(* inv[i] holds the locals of call i; options is the shared object.        *)

Invocations == 1..NumInvocations

\* the option objects of the concurrent calls
ParOptions ==
    { BuildOptions(ma, {}, {}, {}, sr) :
        ma \in Optional(MaxAttemptsValues), sr \in Optional({"always"}) }

\* the values an operation rejects with in a concurrent call
ParThrownValues(seq) ==
    { ZiptaxNetworkError("Network error", Undefined, seq),
      ZiptaxAPIError("Bad request", Some(400), Undefined, seq) }

\* the locals of a call that has not started
NewInvocation ==
    [opts |-> DEFAULT_RETRY_OPTIONS, pc |-> "called", attempt |-> 0,
     lastError |-> Undefined, calls |-> 0, outcomes |-> <<>>, delays |-> <<>>,
     result |-> Undefined, timer |-> Undefined]

InitPar ==
    /\ options \in ParOptions
    /\ inv = [i \in Invocations |-> NewInvocation]
    /\ client = NoClient
    /\ opts = DEFAULT_RETRY_OPTIONS
    /\ pc = "called"
    /\ attempt = 0
    /\ lastError = Undefined
    /\ calls = 0
    /\ outcomes = <<>>
    /\ srCalls = <<>>
    /\ delays = <<>>
    /\ result = Undefined
    /\ via = "none"
    /\ timer = Undefined
    /\ elapsed = <<>>
    /\ transport = <<>>

\* lines 60-63 in call i
PEnter(i) ==
    /\ inv[i].pc = "called"
    /\ inv' = [inv EXCEPT ![i] = [@ EXCEPT !.opts = MergeOptions(options),
                                          !.lastError = Undefined,
                                          !.attempt = 1,
                                          !.pc = "loop"]]
    /\ UNCHANGED <<options, callVars, transport, client>>

\* lines 63-65 in call i
PInvoke(i) ==
    /\ inv[i].pc = "loop"
    /\ LoopCondition(inv[i].attempt, inv[i].opts)
    /\ inv' = [inv EXCEPT ![i] = [@ EXCEPT !.calls = @ + 1, !.pc = "awaiting"]]
    /\ UNCHANGED <<options, callVars, transport, client>>

\* line 65 in call i
PFnResolve(i) ==
    /\ inv[i].pc = "awaiting"
    /\ \E v \in ResolvedValues(inv[i].calls) :
        inv' = [inv EXCEPT ![i] =
                    [@ EXCEPT !.outcomes = Append(@, [ok |-> TRUE, value |-> Some(v),
                                                      thrown |-> Undefined]),
                              !.result = Some(v),
                              !.pc = "resolved"]]
    /\ UNCHANGED <<options, callVars, transport, client>>

\* variant: a random jitter of up to one millisecond is added to the delay
PFnReject_Jitter(i) ==
    /\ inv[i].pc = "awaiting"
    /\ \E e \in ParThrownValues(inv[i].calls), jitter \in {0, 1} :
        LET l    == inv[i]
            err  == CaptureError(e)
            stop == StopsAfter(l.attempt, l.opts, err)
            out  == Append(l.outcomes, [ok |-> FALSE, value |-> Undefined, thrown |-> Some(e)])
        IN  inv' = [inv EXCEPT ![i] =
                IF stop
                THEN [l EXCEPT !.outcomes = out, !.lastError = Some(err),
                               !.result = Some(err), !.pc = "rejected"]
                ELSE [l EXCEPT !.outcomes = out, !.lastError = Some(err),
                               !.delays = Append(@, calculateDelay(l.attempt, l.opts) + jitter),
                               !.timer = Some(calculateDelay(l.attempt, l.opts) + jitter),
                               !.pc = "sleeping"]]
    /\ UNCHANGED <<options, callVars, transport, client>>

\* lines 66-77 in call i
PFnReject(i) ==
    /\ inv[i].pc = "awaiting"
    /\ \E e \in ParThrownValues(inv[i].calls) :
        LET l    == inv[i]
            err  == CaptureError(e)
            stop == StopsAfter(l.attempt, l.opts, err)
            out  == Append(l.outcomes, [ok |-> FALSE, value |-> Undefined, thrown |-> Some(e)])
        IN  inv' = [inv EXCEPT ![i] =
                IF stop
                THEN [l EXCEPT !.outcomes = out, !.lastError = Some(err),
                               !.result = Some(err), !.pc = "rejected"]
                ELSE [l EXCEPT !.outcomes = out, !.lastError = Some(err),
                               !.delays = Append(@, calculateDelay(l.attempt, l.opts)),
                               !.timer = Some(calculateDelay(l.attempt, l.opts)),
                               !.pc = "sleeping"]]
    /\ UNCHANGED <<options, callVars, transport, client>>

\* variant: the attempt counter is one module-level variable of all calls
PTimerFire_SharedCounter(i) ==
    /\ inv[i].pc = "sleeping"
    /\ inv' = [j \in Invocations |->
                IF j = i
                THEN [inv[j] EXCEPT !.timer = Undefined, !.attempt = @ + 1, !.pc = "loop"]
                ELSE IF inv[j].pc \in {"called", "resolved", "rejected"} THEN inv[j]
                ELSE [inv[j] EXCEPT !.attempt = @ + 1]]
    /\ UNCHANGED <<options, callVars, transport, client>>

\* lines 77-79 and 63 in call i
PTimerFire(i) ==
    /\ inv[i].pc = "sleeping"
    /\ inv' = [inv EXCEPT ![i] = [@ EXCEPT !.timer = Undefined, !.attempt = @ + 1,
                                          !.pc = "loop"]]
    /\ UNCHANGED <<options, callVars, transport, client>>

\* lines 63 and 81-86 in call i
PFallThrough(i) ==
    /\ inv[i].pc = "loop"
    /\ ~LoopCondition(inv[i].attempt, inv[i].opts)
    /\ inv' = [inv EXCEPT ![i] =
                [@ EXCEPT !.result = Some(ExhaustedError(inv[i].opts, inv[i].attempt,
                                                         inv[i].lastError)),
                          !.pc = "rejected"]]
    /\ UNCHANGED <<options, callVars, transport, client>>

\* any step of call i
PStep(i) ==
    \/ PEnter(i)
    \/ PInvoke(i)
    \/ PFnResolve(i)
    \/ PFnReject(i)
    \/ PTimerFire(i)
    \/ PFallThrough(i)

NextPar ==
    \/ \E i \in Invocations : PEnter(i)
    \/ \E i \in Invocations : PInvoke(i)
    \/ \E i \in Invocations : PFnResolve(i)
    \/ \E i \in Invocations : PFnReject(i)
    \/ \E i \in Invocations : PTimerFire(i)
    \/ \E i \in Invocations : PFallThrough(i)

SpecPar == InitPar /\ [][NextPar]_vars

----------------------------------------------------------------------------
(* Vocabulary of the properties *)

Terminated == pc \in {"resolved", "rejected"}

\* opts.maxAttempts is an integer n >= 1
IntegerMaxAttempts ==
    /\ IsDefined(opts.maxAttempts)
    /\ opts.maxAttempts[1] % Scale = 0
    /\ opts.maxAttempts[1] >= Scale

\* that integer
N == opts.maxAttempts[1] \div Scale

TypeOK ==
    /\ pc \in {"idle", "called", "loop", "awaiting", "sleeping", "resolved", "rejected"}
    /\ attempt \in Nat
    /\ calls \in Nat
    /\ via \in {"none", "return", "throw", "fallthrough"}

\* every failed invocation so far was followed by a shouldRetry that returned TRUE
PredicateAlwaysTrue == \A i \in 1..Len(srCalls) : srCalls[i].result

\* no invocation has resolved
AllFailed == \A i \in 1..Len(outcomes) : ~outcomes[i].ok

\* the value thrown by the i-th invocation of fn
Thrown(i) == outcomes[i].thrown[1]

\* the call has rejected with the error of the i-th invocation: the thrown
\* Error object itself, or, for a thrown value that is not an Error, the
\* Error made from it at that attempt
RejectsWithErrorOf(i) ==
    /\ pc = "rejected"
    /\ IsDefined(result)
    /\ IF Thrown(i).kind = "Error"
       THEN result[1] = Thrown(i)
       ELSE /\ result[1].kind = "Error"
            /\ result[1].name = "Error"
            /\ result[1].message = String(Thrown(i).value)
            /\ result[1].seq = i

----------------------------------------------------------------------------
(* Claims *)

\* C1: with an integer maxAttempts = n >= 1 and a shouldRetry that returns
\* true for every error, an operation that always fails is invoked exactly n
\* times (never more while running) and the call then rejects with the error
\* of the n-th invocation, not with a ZiptaxRetryError and not with an
\* earlier error.
C1_AlwaysFailingInvokedNTimes ==
    (IntegerMaxAttempts /\ PredicateAlwaysTrue /\ AllFailed) =>
        /\ calls <= N
        /\ pc = "rejected" =>
            /\ calls = N
            /\ Len(outcomes) = N
            /\ via = "throw"
            /\ RejectsWithErrorOf(N)
            /\ result[1].name # "ZiptaxRetryError"
            /\ result[1].seq = N

C1_Witness ==
    /\ pc = "rejected"
    /\ IntegerMaxAttempts /\ N = 3
    /\ opts.shouldRetry = "always"
    /\ calls = 3
    /\ Thrown(3).name = "ZiptaxNetworkError"

\* C2: when the operation fails on attempts 1..k-1 and resolves on attempt
\* k <= maxAttempts, it has been invoked exactly k times, the call resolves
\* with the value of the k-th invocation, k-1 delays were waited (none after
\* the successful attempt) and nothing more can happen.
C2_SuccessOnAttemptK ==
    pc = "resolved" =>
        LET k == Len(outcomes)
        IN  /\ k >= 1
            /\ calls = k
            /\ attempt = k
            /\ NumLeq(k, opts.maxAttempts)
            /\ outcomes[k].ok
            /\ \A i \in 1..(k - 1) : ~outcomes[i].ok
            /\ result = outcomes[k].value
            /\ result[1].seq = k
            /\ via = "return"
            /\ Len(delays) = k - 1
            /\ ~ENABLED Next

C2_Witness ==
    /\ pc = "resolved"
    /\ calls = 3
    /\ Len(delays) = 2
    /\ ~outcomes[1].ok /\ ~outcomes[2].ok

\* C3: the delay waited between attempt i and attempt i+1 is
\* min(initialDelay * backoffMultiplier^(i-1), maxDelay); with 1000 and 2 the
\* first two delays are 1000 and 2000, and with 1000, 100 and maxDelay 2000
\* the second delay is 2000.
C3_DelayIsClampedExponential ==
    /\ \A i \in 1..Len(delays) :
        delays[i] = Min(opts.initialDelay * MathPow(opts.backoffMultiplier, i - 1),
                        opts.maxDelay)
    /\ pc = "sleeping" => Len(delays) = attempt
    /\ pc \in {"loop", "awaiting"} => Len(delays) = attempt - 1
    /\ (opts.initialDelay = 1000 /\ opts.backoffMultiplier = 2 /\ opts.maxDelay >= 2000
            /\ Len(delays) >= 2) =>
        (delays[1] = 1000 /\ delays[2] = 2000)
    /\ (opts.initialDelay = 1000 /\ opts.backoffMultiplier = 100 /\ opts.maxDelay = 2000
            /\ Len(delays) >= 2) =>
        delays[2] = 2000

C3_Witness ==
    /\ opts.initialDelay = 1000 /\ opts.backoffMultiplier = 100 /\ opts.maxDelay = 2000
    /\ delays = <<1000, 2000>>

\* C4: when shouldRetry returns false for the error of attempt 1 the
\* operation was invoked exactly once, no delay was waited and the call has
\* rejected with that error, whatever maxAttempts is.
C4_NonRetryableFirstErrorStops ==
    (Len(srCalls) >= 1 /\ ~srCalls[1].result) =>
        /\ pc = "rejected"
        /\ via = "throw"
        /\ calls = 1
        /\ Len(outcomes) = 1
        /\ delays = <<>>
        /\ srCalls[1].attempt = 1
        /\ result = Some(srCalls[1].error)
        /\ RejectsWithErrorOf(1)

C4_Witness ==
    /\ Len(srCalls) = 1 /\ ~srCalls[1].result
    /\ IntegerMaxAttempts /\ N = 3
    /\ opts.shouldRetry = "never"
    /\ Thrown(1).name = "Error"
    /\ pc = "rejected"

\* the verdict C5 states for an error
C5_Retryable(e) ==
    \/ e.name = "ZiptaxNetworkError"
    \/ /\ e.name \in ApiKindNames
       /\ IsDefined(e.statusCode)
       /\ e.statusCode[1] >= 500

\* C5: the default shouldRetry returns true exactly for a ZiptaxNetworkError
\* and for an API-kind error with status >= 500; it returns false for any 4xx
\* API error, rate-limit, authentication and validation errors and errors
\* without a status code; the attempt number does not matter.
C5_DefaultPredicate ==
    (pc # "called" /\ opts.shouldRetry = "default") =>
        /\ \A i \in 1..Len(srCalls) :
            LET e == srCalls[i].error
            IN  /\ srCalls[i].result = C5_Retryable(e)
                /\ (e.name \in {"ZiptaxRateLimitError", "ZiptaxAuthenticationError",
                                "ZiptaxValidationError", "Error"}) => ~srCalls[i].result
                /\ (e.name = "ZiptaxAPIError" /\ ~IsDefined(e.statusCode)) => ~srCalls[i].result
                /\ (IsDefined(e.statusCode) /\ e.statusCode[1] \in 400..499) => ~srCalls[i].result
        /\ \A i, j \in 1..Len(srCalls) :
            ([srCalls[i].error EXCEPT !.seq = 0] = [srCalls[j].error EXCEPT !.seq = 0])
                => srCalls[i].result = srCalls[j].result

C5_Witness ==
    /\ opts.shouldRetry = "default"
    /\ Len(srCalls) = 3
    /\ srCalls[1].error.name = "ZiptaxNetworkError" /\ srCalls[1].result
    /\ srCalls[2].error.name = "ZiptaxAPIError" /\ srCalls[2].result
    /\ srCalls[3].error.name = "ZiptaxRateLimitError" /\ ~srCalls[3].result

\* a ZiptaxAPIError (the class or a subclass) with a status in 400..499
C6_Is4xxApiError(e) ==
    /\ e.kind = "Error"
    /\ e.name \in ApiKindNames
    /\ IsDefined(e.statusCode)
    /\ e.statusCode[1] \in 400..499

\* C6: under the default predicate, an operation whose first failure is a
\* ZiptaxAPIError with a status in 400..499 is invoked exactly once and the
\* call rejects with that same error, statusCode unchanged.
C6_ClientErrorNotRetried ==
    (pc # "called" /\ opts.shouldRetry = "default" /\ Len(outcomes) >= 1
        /\ ~outcomes[1].ok /\ C6_Is4xxApiError(Thrown(1))) =>
            /\ pc = "rejected"
            /\ calls = 1
            /\ Len(outcomes) = 1
            /\ delays = <<>>
            /\ result = outcomes[1].thrown
            /\ result[1].statusCode = Thrown(1).statusCode

C6_Witness ==
    /\ pc = "rejected"
    /\ opts.shouldRetry = "default"
    /\ IntegerMaxAttempts /\ N = 3
    /\ calls = 1
    /\ Thrown(1).name = "ZiptaxAPIError"
    /\ result[1].statusCode = Some(400)

\* C7 as stated: whenever the call stops after a failed attempt it rejects
\* with the very value the operation threw on that attempt, never a wrapper.
C7_RejectsWithThrownValueItself ==
    via = "throw" => result = outcomes[Len(outcomes)].thrown

\* C7 (amended): whenever the call stops after a failed attempt whose thrown
\* value is an Error instance, it rejects with that very Error object,
\* unchanged and never replaced by a ZiptaxRetryError; a thrown value that is
\* not an Error instance is rejected as a new generic Error whose message is
\* the stringified value.
C7_RejectsWithCapturedError ==
    via = "throw" =>
        LET n == Len(outcomes)
        IN  /\ pc = "rejected"
            /\ ~outcomes[n].ok
            /\ Thrown(n).kind = "Error" => result = Some(Thrown(n))
            /\ Thrown(n).kind # "Error" =>
                /\ result[1] = PlainError(String(Thrown(n).value), n)
                /\ result[1] # Thrown(n)
            /\ result[1].name # "ZiptaxRetryError"

C7_Witness ==
    /\ via = "throw"
    /\ Len(outcomes) = 2
    /\ Thrown(2).name = "ZiptaxAuthenticationError"
    /\ result = Some(Thrown(2))

\* C8: with an integer maxAttempts >= 1 the fall-through after the loop is
\* never taken: the call never rejects with the engine's ZiptaxRetryError; it
\* resolves with the value of its final invocation or rejects with the error
\* of its final invocation.
C8_FallThroughUnreachable ==
    IntegerMaxAttempts =>
        /\ via # "fallthrough"
        /\ pc = "loop" => LoopCondition(attempt, opts)
        /\ pc = "resolved" =>
            /\ outcomes[Len(outcomes)].ok
            /\ result = outcomes[Len(outcomes)].value
        /\ pc = "rejected" =>
            /\ calls = Len(outcomes)
            /\ RejectsWithErrorOf(Len(outcomes))
            /\ result[1].name # "ZiptaxRetryError"

C8_Witness ==
    /\ IntegerMaxAttempts /\ N = 2
    /\ opts.shouldRetry = "always"
    /\ pc = "rejected"
    /\ calls = 2
    /\ via = "throw"

\* C9: the call resolves only with the value of an invocation that
\* resolved; when the loop ends without a return or a throw the call rejects
\* with a ZiptaxRetryError whose attempts is maxAttempts and whose lastError
\* is the last error observed (undefined when there was none).
C9_FallThroughRaisesRetryError ==
    /\ pc = "resolved" =>
        /\ Len(outcomes) >= 1
        /\ outcomes[Len(outcomes)].ok
        /\ result = outcomes[Len(outcomes)].value
    /\ (IsDefined(result) /\ via = "return") => pc = "resolved"
    /\ (pc = "loop" /\ ~LoopCondition(attempt, opts)) => ENABLED FallThrough
    /\ via = "fallthrough" =>
        /\ pc = "rejected"
        /\ result[1].name = "ZiptaxRetryError"
        /\ result[1].attempts = Some(opts.maxAttempts)
        /\ result[1].lastError =
            (IF srCalls = <<>> THEN Undefined ELSE Some(srCalls[Len(srCalls)].error))
        /\ AllFailed

C9_Witness ==
    /\ via = "fallthrough"
    /\ IsDefined(opts.maxAttempts)
    /\ opts.maxAttempts[1] % Scale # 0
    /\ calls = 2
    /\ IsDefined(result[1].lastError)
    /\ result[1].lastError[1].seq = 2

\* C10: a policy with maxAttempts < 1 is rejected with a
\* ZiptaxConfigurationError and the operation is never invoked.
C10_InvalidPolicyRejected ==
    (pc # "called" /\ IsDefined(opts.maxAttempts) /\ opts.maxAttempts[1] < Scale) =>
        /\ calls = 0
        /\ Terminated => result[1].name = "ZiptaxConfigurationError"

\* C11: the operation is never invoked more than maxAttempts times (not at
\* all when maxAttempts is below 1 or undefined), and whenever the operation
\* is invoked the attempt counter is between 1 and maxAttempts.
C11_InvocationsBounded ==
    pc # "called" =>
        /\ (IsDefined(opts.maxAttempts) /\ opts.maxAttempts[1] >= 0) =>
                calls * Scale <= opts.maxAttempts[1]
        /\ (~IsDefined(opts.maxAttempts) \/ opts.maxAttempts[1] < Scale) => calls = 0
        /\ pc = "awaiting" =>
            /\ attempt >= 1
            /\ attempt * Scale <= opts.maxAttempts[1]
            /\ calls = attempt

C11_Witness ==
    /\ pc = "awaiting"
    /\ IntegerMaxAttempts /\ N = 3
    /\ attempt = 3
    /\ calls = 3

\* C12: a call starts in Attempting(1); from Attempting(n) it moves only to
\* Success, to Failed or, after a delay, to Attempting(n+1); Success and
\* Failed are terminal (no invocation, predicate evaluation or delay after
\* them) and the attempt index only ever grows by exactly 1.
C12_StateMachine ==
    [][ /\ pc = "called" => (pc' = "loop" /\ attempt' = 1)
        /\ pc = "loop" => pc' \in {"awaiting", "rejected"}
        /\ pc = "awaiting" => pc' \in {"resolved", "rejected", "sleeping"}
        /\ pc = "sleeping" => (pc' = "loop" /\ attempt' = attempt + 1)
        /\ pc # "called" => attempt' \in {attempt, attempt + 1}
        /\ (pc # "called" /\ attempt' # attempt) =>
            /\ pc = "sleeping"
            /\ Len(delays) = attempt
            /\ ~outcomes[attempt].ok
        /\ pc' = "sleeping" => Len(delays') = Len(delays) + 1
        /\ Terminated =>
            /\ calls' = calls
            /\ srCalls' = srCalls
            /\ delays' = delays
            /\ UNCHANGED vars
      ]_vars

C12_Witness ==
    /\ pc = "rejected"
    /\ attempt = 3
    /\ Len(delays) = 2
    /\ Len(srCalls) = 3

\* C13: at most one operation call is in flight at any time; attempt i+1
\* is started only after attempt i has rejected and the delay computed for
\* attempt i has fully elapsed.
C13_AttemptsSequential ==
    /\ calls - Len(outcomes) \in {0, 1}
    /\ (calls - Len(outcomes) = 1) <=> (pc = "awaiting")
    /\ pc = "awaiting" =>
        /\ timer = Undefined
        /\ elapsed = delays
        /\ Len(delays) = calls - 1
        /\ \A i \in 1..(calls - 1) :
            /\ ~outcomes[i].ok
            /\ elapsed[i] = calculateDelay(i, opts)
    /\ IsDefined(timer) => (pc = "sleeping" /\ calls = Len(outcomes))

C13_Witness ==
    /\ pc = "awaiting"
    /\ calls = 3
    /\ Len(elapsed) = 2
    /\ elapsed[2] > elapsed[1]

\* C15: every policy field the caller does not supply takes its default
\* (3, 1000, 10000, 2, the network-or-5xx predicate), every supplied field
\* overrides that field only, and a call without options runs the full
\* default policy.
C15_DefaultsAndOverrides ==
    pc # "called" =>
        /\ DOMAIN opts = {"maxAttempts", "initialDelay", "maxDelay",
                          "backoffMultiplier", "shouldRetry"}
        /\ \A k \in DOMAIN opts : k \in DOMAIN options => opts[k] = options[k]
        /\ "maxAttempts" \notin DOMAIN options => opts.maxAttempts = Some(3 * Scale)
        /\ "initialDelay" \notin DOMAIN options => opts.initialDelay = 1000
        /\ "maxDelay" \notin DOMAIN options => opts.maxDelay = 10000
        /\ "backoffMultiplier" \notin DOMAIN options => opts.backoffMultiplier = 2
        /\ "shouldRetry" \notin DOMAIN options =>
            /\ opts.shouldRetry = "default"
            /\ \A i \in 1..Len(srCalls) :
                srCalls[i].result = C5_Retryable(srCalls[i].error)
        /\ DOMAIN options = {} =>
            /\ calls <= 3
            /\ \A i \in 1..Len(delays) : delays[i] = 1000 * MathPow(2, i - 1)

C15_Witness ==
    /\ DOMAIN options = {"maxDelay"}
    /\ opts.maxDelay = 100
    /\ opts.maxAttempts = Some(3 * Scale)
    /\ delays = <<100, 100>>
    /\ pc = "rejected"

\* the i-th transport failure is an axios error that carries a response
HasResponse(i) == transport[i].isAxiosError /\ IsDefined(transport[i].response)

\* the i-th transport failure is an axios error without a response
NoResponse(i) == transport[i].isAxiosError /\ ~IsDefined(transport[i].response)

\* the status of the i-th transport failure's response
StatusOf(i) == transport[i].response[1].status

\* C16: in HTTPClient.request every transport failure is classified by
\* handleError before shouldRetry sees it; under the default predicate and an
\* integer maxAttempts = n >= 1, a transport whose failures all carry a
\* status below 500 is requested exactly once, a transport that always
\* answers a status >= 500 or gives no response is requested exactly n
\* times, and the caller receives the classified error of the last attempt.
C16_ClassifiedBeforeRetryDecision ==
    (pc # "called" /\ opts.shouldRetry = "default" /\ IntegerMaxAttempts) =>
        /\ Len(srCalls) = Len(transport)
        /\ \A i \in 1..Len(transport) :
            /\ srCalls[i].error = handleError(transport[i], i)
            /\ srCalls[i].error = Thrown(i)
            /\ transport[i].isAxiosError =>
                srCalls[i].error.name \in ApiKindNames \cup {"ZiptaxNetworkError"}
        /\ (Len(transport) >= 1 /\ HasResponse(1) /\ StatusOf(1) < 500) =>
            /\ pc = "rejected"
            /\ calls = 1
            /\ srCalls[1].error.name \in ApiKindNames
        /\ (AllFailed /\ \A i \in 1..Len(transport) :
                NoResponse(i) \/ (HasResponse(i) /\ StatusOf(i) >= 500)) =>
            /\ calls <= N
            /\ pc \in {"sleeping", "loop", "awaiting", "rejected"}
            /\ pc = "rejected" => calls = N
        /\ pc = "rejected" =>
            /\ via = "throw"
            /\ result = Some(handleError(transport[Len(transport)], Len(transport)))
            /\ result[1].seq = calls

C16_Witness ==
    /\ pc = "rejected"
    /\ opts.shouldRetry = "default"
    /\ IntegerMaxAttempts /\ N = 3
    /\ calls = 3
    /\ NoResponse(1)
    /\ HasResponse(2) /\ StatusOf(2) = 503
    /\ HasResponse(3) /\ StatusOf(3) = 500
    /\ result[1].name = "ZiptaxAPIError"

\* C17: a transport failure without a response is classified as a
\* ZiptaxNetworkError whose originalError is that failure, whatever its
\* other fields are.
C17_NoResponseIsNetworkError ==
    \A i \in 1..Len(transport) :
        NoResponse(i) =>
            /\ Thrown(i).kind = "Error"
            /\ Thrown(i).name = "ZiptaxNetworkError"
            /\ Thrown(i).originalError = Some(transport[i])
            /\ Thrown(i).statusCode = Undefined

C17_Witness ==
    /\ Len(transport) = 2
    /\ NoResponse(1) /\ transport[1].message = ""
    /\ NoResponse(2) /\ transport[2].message = "Network Error"
    /\ Thrown(2).originalError = Some(transport[2])

\* C18: a transport failure with a response is classified as a
\* ZiptaxAuthenticationError exactly when the status is 401 or 403; for a
\* 401 the statusCode is 401.
C18_AuthStatuses ==
    \A i \in 1..Len(transport) :
        HasResponse(i) =>
            /\ (StatusOf(i) \in {401, 403}) <=> (Thrown(i).name = "ZiptaxAuthenticationError")
            /\ StatusOf(i) = 401 => Thrown(i).statusCode = Some(401)

C18_Witness ==
    /\ Len(transport) = 1
    /\ HasResponse(1) /\ StatusOf(1) = 403
    /\ Thrown(1).name = "ZiptaxAuthenticationError"
    /\ pc = "rejected"

\* the characters cs start (after blanks and a sign) with a digit
C19_IntegerParseable(cs) ==
    LET t == SkipSpaces(cs)
        b == IF t # <<>> /\ Head(t) \in {"-", "+"} THEN Tail(t) ELSE t
    IN  b # <<>> /\ IsDigit(Head(b))

\* C19: a transport failure with status 429 is classified as a
\* ZiptaxRateLimitError whose retryAfter is the integer value of the
\* retry-after header when the header is present and integer-parseable, and
\* is undefined in every other case.
C19_RetryAfterHint ==
    \A i \in 1..Len(transport) :
        (HasResponse(i) /\ StatusOf(i) = 429) =>
            LET h == transport[i].response[1].headers.retryAfter
            IN  /\ Thrown(i).name = "ZiptaxRateLimitError"
                /\ IF IsDefined(h) /\ C19_IntegerParseable(h[1])
                   THEN /\ Thrown(i).retryAfter[1] = "number"
                        /\ h[1] = <<"6", "0">> => Thrown(i).retryAfter = Number(60)
                   ELSE Thrown(i).retryAfter = Undefined

\* C20: a transport failure with a response whose status is not 401, 403
\* or 429 is classified as a plain ZiptaxAPIError whose statusCode is the
\* response status and whose responseBody is the raw response body.
C20_GenericApiError ==
    \A i \in 1..Len(transport) :
        (HasResponse(i) /\ StatusOf(i) \notin {401, 403, 429}) =>
            /\ Thrown(i).kind = "Error"
            /\ Thrown(i).name = "ZiptaxAPIError"
            /\ Thrown(i).statusCode = Some(StatusOf(i))
            /\ Thrown(i).responseBody = Some(transport[i].response[1].data)
            /\ Thrown(i).retryAfter = Undefined

C20_Witness ==
    /\ Len(transport) = 2
    /\ HasResponse(1) /\ StatusOf(1) = 500
    /\ HasResponse(2) /\ StatusOf(2) = 404
    /\ Thrown(2).responseBody = Some(ObjectBody(Undefined, <<"string", "Invalid parameters">>))
    /\ Thrown(2).message = "Invalid parameters"

\* what a call running alone does with the option object o when its
\* operation settles as outs, from attempt a on with the delays ds waited
RECURSIVE AloneRun(_, _, _, _)
AloneRun(o, outs, a, ds) ==
    IF ~LoopCondition(a, MergeOptions(o))
    THEN [calls |-> a - 1, delays |-> ds,
          result |-> Some(ExhaustedError(MergeOptions(o), a,
                        IF a = 1 THEN Undefined
                        ELSE Some(CaptureError(outs[a - 1].thrown[1]))))]
    ELSE IF a > Len(outs) THEN [calls |-> a, delays |-> ds, result |-> Undefined]
    ELSE IF outs[a].ok THEN [calls |-> a, delays |-> ds, result |-> outs[a].value]
    ELSE IF StopsAfter(a, MergeOptions(o), CaptureError(outs[a].thrown[1]))
         THEN [calls |-> a, delays |-> ds,
               result |-> Some(CaptureError(outs[a].thrown[1]))]
         ELSE AloneRun(o, outs, a + 1, Append(ds, calculateDelay(a, MergeOptions(o))))

\* a single call of Spec does what AloneRun computes
AloneRunIsSingleRun ==
    pc \in {"awaiting", "resolved", "rejected"} =>
        [calls |-> calls, delays |-> delays, result |-> result]
            = AloneRun(options, outcomes, 1, <<>>)

\* C14: under every interleaving of concurrent calls, each call makes the
\* attempts, waits the delays and settles with the outcome it would alone;
\* a step of one call changes neither the locals of another call nor the
\* shared option object, and a call is never kept from its next step by
\* another call that waits in its backoff delay.
C14_ConcurrentCallsIndependent ==
    [][ /\ options' = options
        /\ \E i \in Invocations : \A j \in Invocations \ {i} : inv'[j] = inv[j]
        /\ \A i \in Invocations :
            /\ inv'[i].pc # "called" => inv'[i].opts = MergeOptions(options)
            /\ inv'[i].pc \in {"awaiting", "resolved", "rejected"} =>
                [calls |-> inv'[i].calls, delays |-> inv'[i].delays,
                 result |-> inv'[i].result]
                    = AloneRun(options, inv'[i].outcomes, 1, <<>>)
        /\ \A i, j \in Invocations :
            (inv[i].pc = "sleeping" /\ inv[j].pc \notin {"resolved", "rejected"})
                => ENABLED PStep(j)
      ]_vars

C14_Witness ==
    /\ inv # <<>>
    /\ inv[1].pc = "sleeping"
    /\ inv[1].attempt = 2
    /\ inv[2].pc = "rejected"
    /\ inv[2].calls = 3
    /\ inv[2].delays = <<1000, 2000>>
    /\ inv[2].result[1].name = "ZiptaxNetworkError"

\* the body of the i-th transport failure's response
DataOf(i) == transport[i].response[1].data

\* the message the variant of the i-th response's status gets when the body
\* holds nothing at all
DefaultMessageOf(i) ==
    handleError(AxiosFailure("", Some(Response(StatusOf(i), NullBody, Undefined))), i).message

\* the string the extraction policy selects from the body, if any
C21_Selected(data) ==
    CASE data.type = "string" -> Some(data.text)
      [] data.type = "object" /\ IsStringField(data.message) -> Some(data.message[2])
      [] data.type = "object" /\ ~IsStringField(data.message) /\ IsStringField(data.error) ->
            Some(data.error[2])
      [] OTHER -> Undefined

\* C21 as stated: the message of an error classified from a response is the
\* string body verbatim, else the object's string message field, else its
\* string error field, else the variant's default message; in particular
\* every string body is used verbatim.
C21_MessageFromBodyVerbatim ==
    \A i \in 1..Len(transport) :
        HasResponse(i) =>
            Thrown(i).message =
                IF IsDefined(C21_Selected(DataOf(i))) THEN C21_Selected(DataOf(i))[1]
                ELSE DefaultMessageOf(i)

\* C21 as amended: the message of an error classified from a response is the
\* string selected from the body (a string body itself, else the object's
\* string message field, else its string error field) when that string is
\* not empty, and the variant's default message when nothing is selected or
\* the selected string is empty; no other field of the body has any effect.
C21_MessageFromBodyUnlessEmpty ==
    \A i \in 1..Len(transport) :
        HasResponse(i) =>
            /\ Thrown(i).message =
                IF IsDefined(C21_Selected(DataOf(i))) /\ C21_Selected(DataOf(i))[1] # ""
                THEN C21_Selected(DataOf(i))[1]
                ELSE DefaultMessageOf(i)
            /\ Thrown(i).message =
                handleError(AxiosFailure("", Some(Response(StatusOf(i),
                    [DataOf(i) EXCEPT !.detail = Undefined], Undefined))), i).message

C21_Witness ==
    /\ Len(transport) = 1
    /\ HasResponse(1) /\ StatusOf(1) = 401
    /\ DataOf(1) = ObjectBody(<<"string", "">>, <<"string", "Denied">>)
    /\ Thrown(1).message = "Authentication failed"
    /\ pc = "rejected"

\* the default values of the message parameter of the constructors of
\* ZiptaxAuthenticationError and ZiptaxRateLimitError
AuthenticationDefaultMessage == "Authentication failed. Please check your API key."

RateLimitDefaultMessage == "Rate limit exceeded."

\* C22: when nothing can be extracted from the response body, the message
\* of the classified error is "Authentication failed. Please check your API
\* key." for status 401 or 403, "Rate limit exceeded." for 429 and "API
\* request failed with status <code>" for every other status.
C22_FixedDefaultMessages ==
    \A i \in 1..Len(transport) :
        (HasResponse(i) /\ ~IsDefined(extractErrorMessage(DataOf(i)))) =>
            Thrown(i).message =
                IF StatusOf(i) \in {401, 403} THEN AuthenticationDefaultMessage
                ELSE IF StatusOf(i) = 429 THEN RateLimitDefaultMessage
                ELSE "API request failed with status " \o NumberToString(StatusOf(i))

\* the value thrown by the i-th request when it is not an axios error
NonAxiosValue(i) == transport[i].thrown[1]

\* C23: a failure of the transport that is not an axios error is not
\* classified: an Error instance reaches the retry engine as the same error,
\* any other value as a plain Error whose message is String(value); the
\* retry engine does not wrap it again, and when the predicate does not ask
\* for a retry (the default predicate never does for a plain Error) the call
\* rejects at once with that very error and message.
C23_NonAxiosPassesThrough ==
    \A i \in 1..Len(transport) :
        ~transport[i].isAxiosError =>
            /\ IF InstanceOfError(NonAxiosValue(i))
               THEN Thrown(i) = NonAxiosValue(i)
               ELSE /\ Thrown(i).kind = "Error"
                    /\ Thrown(i).name = "Error"
                    /\ Thrown(i).message = String(NonAxiosValue(i).value)
                    /\ Thrown(i).statusCode = Undefined
                    /\ Thrown(i).originalError = Undefined
            /\ srCalls[i].error = Thrown(i)
            /\ (Thrown(i).name = "Error" /\ opts.shouldRetry = "default") => ~srCalls[i].result
            /\ ~srCalls[i].result =>
                /\ pc = "rejected"
                /\ via = "throw"
                /\ calls = i
                /\ result = Some(Thrown(i))
                /\ result[1].message =
                    IF InstanceOfError(NonAxiosValue(i)) THEN NonAxiosValue(i).message
                    ELSE String(NonAxiosValue(i).value)

C23_Witness ==
    /\ Len(transport) = 2
    /\ NoResponse(1)
    /\ ~transport[2].isAxiosError
    /\ NonAxiosValue(2) = RawThrowable(<<"string", "string error">>, 2)
    /\ pc = "rejected"
    /\ result[1].name = "Error"
    /\ result[1].message = "string error"

\* C24: every API-kind error the classifier makes from a response
\* (ZiptaxAuthenticationError, ZiptaxRateLimitError or ZiptaxAPIError)
\* carries a status code and, as responseBody, the raw body of that response.
C24_ApiKindCarriesStatusAndBody ==
    \A i \in 1..Len(transport) :
        (HasResponse(i) /\ Thrown(i).name \in ApiKindNames) =>
            /\ IsDefined(Thrown(i).statusCode)
            /\ Thrown(i).responseBody = Some(DataOf(i))

\* every failed invocation so far rejected with a ZiptaxNetworkError
AllNetworkErrors ==
    \A i \in 1..Len(outcomes) : ~outcomes[i].ok /\ Thrown(i).name = "ZiptaxNetworkError"

\* C25: a custom shouldRetry receives the 1-based index of the attempt that
\* just failed: with the README's predicate and maxAttempts = 5 an operation
\* that always fails with ZiptaxNetworkError is invoked exactly 3 times, and
\* with a predicate "attempt < k" and an integer maxAttempts = n >= 1 an
\* operation that always fails is invoked exactly min(k, n) times.
C25_AttemptArgumentIsOneBased ==
    /\ \A i \in 1..Len(srCalls) : srCalls[i].attempt = i
    /\ (opts.shouldRetry = "readme" /\ opts.maxAttempts = Some(ReadmeMaxAttempts * Scale)
            /\ AllNetworkErrors /\ pc # "called") =>
        /\ calls <= 3
        /\ pc = "rejected" => (calls = 3 /\ Len(srCalls) = 3 /\ via = "throw")
    /\ (opts.shouldRetry \in AttemptPredicates /\ IntegerMaxAttempts /\ AllFailed
            /\ pc # "called") =>
        /\ calls <= Min(GuardOf(opts.shouldRetry), N)
        /\ pc = "rejected" =>
            /\ calls = Min(GuardOf(opts.shouldRetry), N)
            /\ via = "throw"

C25_Witness ==
    /\ pc = "rejected"
    /\ options = ReadmeRetryOptions
    /\ AllNetworkErrors
    /\ calls = 3
    /\ srCalls[3].attempt = 3 /\ ~srCalls[3].result
    /\ delays = <<2000, 4000>>

----------------------------------------------------------------------------
(* ZiptaxClient: construction and one method call *)

Chars(s) ==
    CASE s = "1 Main St" -> <<"1", " ", "M", "a", "i", "n", " ", "S", "t">>
      [] s = "abc123"    -> <<"a", "b", "c", "1", "2", "3">>
      [] s = " key "     -> <<" ", "k", "e", "y", " ">>
      [] s = "2024-01"   -> <<"2", "0", "2", "4", "-", "0", "1">>
      [] s = "2024-1"    -> <<"2", "0", "2", "4", "-", "1">>
      [] s = "2024-01-15" -> <<"2", "0", "2", "4", "-", "0", "1", "-", "1", "5">>
      [] s = "2024/01"   -> <<"2", "0", "2", "4", "/", "0", "1">>
      [] s = "12345"     -> <<"1", "2", "3", "4", "5">>
      [] s = "12a"       -> <<"1", "2", "a">>
      [] s = "33.65253"  -> <<"3", "3", ".", "6", "5", "2", "5", "3">>
      [] s = "-117.74"   -> <<"-", "1", "1", "7", ".", "7", "4">>
      [] s = "92694"     -> <<"9", "2", "6", "9", "4">>
      [] s = "CAN"       -> <<"C", "A", "N">>
      [] s = "xml"       -> <<"x", "m", "l">>

\* the apiKey values of the model
ApiKeys ==
    { NoValue, JsNull, Str(<<>>), Str(<<" ", " ", " ">>), Str(<<"\t", "\n">>),
      Str(Chars("abc123")), Str(Chars(" key ")), <<"number", 42>> }

\* the retryOptions a ZiptaxConfig of the model carries
ClientRetryOptions ==
    { Undefined, Some(BuildOptions({Some(Scale)}, {}, {}, {}, {})),
      Some(BuildOptions({Some(0)}, {0}, {}, {}, {})) }

ZiptaxConfigs == { [apiKey |-> k, retryOptions |-> ro] : k \in ApiKeys, ro \in ClientRetryOptions }

\* the HTTPClientConfig the constructor builds, as far as retries go
HTTPClientConfigOf(config) ==
    IF IsDefined(config.retryOptions) THEN [retryOptions |-> config.retryOptions[1]]
    ELSE <<>>

Addresses ==
    { NoValue, JsNull, Str(<<>>), Str(Chars("1 Main St")),
      Str(Repeat("a", MaxFieldLength)), Str(Repeat("a", MaxFieldLength + 1)) }

TaxabilityCodes == { NoValue, Str(<<>>), Str(Chars("12345")), Str(Chars("12a")) }

Historicals ==
    { NoValue, Str(<<>>), Str(Chars("2024-01")), Str(Chars("2024-1")),
      Str(Chars("2024-01-15")), Str(Chars("2024/01")) }

Coordinates ==
    { NoValue, Str(<<>>), Str(Chars("33.65253")), Str(Chars("-117.74")),
      Str(Repeat("1", MaxFieldLength + 1)) }

\* countryCode and format, chosen together
CountryAndFormat == { <<NoValue, NoValue>>, <<Str(Chars("CAN")), Str(Chars("xml"))>> }

AddressParams ==
    { [NoParams EXCEPT !.address = a, !.taxabilityCode = t, !.historical = h,
                       !.countryCode = cf[1], !.format = cf[2]] :
        a \in Addresses, t \in TaxabilityCodes, h \in Historicals, cf \in CountryAndFormat }

GeoLocationParams ==
    { [NoParams EXCEPT !.lat = la, !.lng = ln, !.historical = h,
                       !.countryCode = cf[1], !.format = cf[2]] :
        la \in Coordinates, ln \in Coordinates, h \in Historicals, cf \in CountryAndFormat }

AccountMetricsParams == { [NoParams EXCEPT !.format = f] : f \in {NoValue, Str(Chars("xml"))} }

PostalCodeParams ==
    { [NoParams EXCEPT !.postalcode = c, !.format = f] :
        c \in { Str(<<>>), Str(Chars("92694")), Str(<<"1", "2", "3", "4">>),
                Str(<<"A", "B", "C", "D", "E">>), Str(Chars("92694") \o <<"1">>) },
        f \in {NoValue, Str(Chars("xml"))} }

\* the failures of axiosInstance.request the client's requests meet
ClientTransportFailures(seq) ==
    { AxiosFailure("Network Error", Undefined),
      AxiosFailure("Request failed", Some(Response(500, StringBody("Server Error"), Undefined))),
      AxiosFailure("Request failed",
                   Some(Response(401, ObjectBody(<<"string", "Unauthorized">>, Undefined),
                                 Undefined))) }

InitClient ==
    /\ \E config \in ZiptaxConfigs : client = ClientObject("config", config)
    /\ options = <<>>
    /\ opts = DEFAULT_RETRY_OPTIONS
    /\ pc = "idle"
    /\ attempt = 0
    /\ lastError = Undefined
    /\ calls = 0
    /\ outcomes = <<>>
    /\ srCalls = <<>>
    /\ delays = <<>>
    /\ result = Undefined
    /\ via = "none"
    /\ timer = Undefined
    /\ elapsed = <<>>
    /\ transport = <<>>
    /\ inv = <<>>

\* client.ts lines 33-51: new ZiptaxClient(config)
Construct ==
    /\ client.phase = "config"
    /\ IF IsDefined(validateApiKey(client.config.apiKey))
       THEN /\ client' = [client EXCEPT !.phase = "failed",
                                        !.error = validateApiKey(client.config.apiKey)]
            /\ UNCHANGED options
       ELSE /\ client' = [client EXCEPT !.phase = "ready", !.httpClient = TRUE]
            /\ options' = HTTPClientRetryOptions(HTTPClientConfigOf(client.config))
    /\ UNCHANGED <<callVars, transport, inv>>

\* variant: the request is sent before the parameters are validated
StartCall_RequestsFirst(method, params, err, request) ==
    /\ client.phase = "ready"
    /\ client' = [client EXCEPT !.phase = "requesting", !.method = method, !.params = params,
                                !.gets = Append(@, request), !.error = err]
    /\ pc' = "called"
    /\ UNCHANGED <<options, opts, attempt, lastError, calls, outcomes, srCalls, delays,
                   result, via, timer, elapsed, transport, inv>>

\* a method of the client called with params: it rejects with the error err
\* of its validation, or calls httpClient.get with request, which enters
\* retryWithBackoff
StartCall(method, params, err, request) ==
    /\ client.phase = "ready"
    /\ IF IsDefined(err)
       THEN /\ client' = [client EXCEPT !.phase = "rejected", !.method = method, !.params = params,
                                        !.error = err]
            /\ UNCHANGED pc
       ELSE /\ client' = [client EXCEPT !.phase = "requesting", !.method = method, !.params = params,
                                        !.gets = Append(@, request)]
            /\ pc' = "called"
    /\ UNCHANGED <<options, opts, attempt, lastError, calls, outcomes, srCalls, delays,
                   result, via, timer, elapsed, transport, inv>>

\* client.getSalesTaxByAddress(params)
GetSalesTaxByAddress ==
    /\ client.phase = "ready"
    /\ \E params \in AddressParams :
            StartCall("getSalesTaxByAddress", params, FirstError(AddressChecks(params)),
                      AddressRequest(params))

\* client.getSalesTaxByGeoLocation(params)
GetSalesTaxByGeoLocation ==
    /\ client.phase = "ready"
    /\ \E params \in GeoLocationParams :
            StartCall("getSalesTaxByGeoLocation", params, FirstError(GeoLocationChecks(params)),
                      GeoLocationRequest(params))

\* client.getAccountMetrics(params)
GetAccountMetrics ==
    /\ client.phase = "ready"
    /\ \E params \in AccountMetricsParams :
            StartCall("getAccountMetrics", params, Undefined, AccountMetricsRequest(params))

\* client.getRatesByPostalCode(params): the class defines no such method,
\* the call expression throws
GetRatesByPostalCode ==
    /\ client.phase = "ready"
    /\ \E params \in PostalCodeParams :
            StartCall("getRatesByPostalCode", params,
                      IF "getRatesByPostalCode" \in ZiptaxClientMethods THEN Undefined
                      ELSE Some(NotAFunction("client.getRatesByPostalCode")),
                      GetRequest("/request/v60/", TRUE, NoQuery))

\* http.ts lines 103-107 for a request of the client
ClientHttpReject ==
    /\ pc = "awaiting"
    /\ \E f \in ClientTransportFailures(calls) :
        /\ Catch(handleError(f, calls))
        /\ transport' = Append(transport, f)

NextClient ==
    \/ Construct
    \/ GetSalesTaxByAddress
    \/ GetSalesTaxByGeoLocation
    \/ GetAccountMetrics
    \/ GetRatesByPostalCode
    \/ Enter
    \/ Invoke
    \/ FnResolve
    \/ ClientHttpReject
    \/ TimerFire
    \/ FallThrough

SpecClient == InitClient /\ [][NextClient]_vars

\* the value is undefined, null or the empty string
C26_Empty(v) == ~IsStr(v) \/ Len(v[2]) = 0

\* the value is a string of more than 100 characters
C26_TooLong(v) == IsStr(v) /\ Len(v[2]) > 100

\* the value is a non-empty string with a character that is not a digit
C26_NotAllDigits(v) ==
    IsStr(v) /\ Len(v[2]) > 0 /\ \E i \in 1..Len(v[2]) : ~IsDigit(v[2][i])

\* the value is a non-empty string that is not four digits, "-", two digits
C26_NotYearMonth(v) ==
    /\ IsStr(v) /\ Len(v[2]) > 0
    /\ ~(/\ Len(v[2]) = 7
         /\ v[2][5] = "-"
         /\ \A i \in {1, 2, 3, 4, 6, 7} : IsDigit(v[2][i]))

\* some parameter check of the method call made fails
C26_CheckFails ==
    IF client.method = "getSalesTaxByAddress"
    THEN \/ C26_Empty(client.params.address)
         \/ C26_TooLong(client.params.address)
         \/ C26_NotAllDigits(client.params.taxabilityCode)
         \/ C26_NotYearMonth(client.params.historical)
    ELSE \/ C26_Empty(client.params.lat) \/ C26_Empty(client.params.lng)
         \/ C26_TooLong(client.params.lat) \/ C26_TooLong(client.params.lng)
         \/ C26_NotYearMonth(client.params.historical)

\* C26: when a parameter check of getSalesTaxByAddress or
\* getSalesTaxByGeoLocation fails, the call rejects with a
\* ZiptaxValidationError, httpClient.get is never called, no request is sent
\* and retryWithBackoff is never entered; when no check fails the method
\* makes exactly one httpClient.get call.
C26_ValidationRejectsBeforeRequest ==
    client.method \in {"getSalesTaxByAddress", "getSalesTaxByGeoLocation"} =>
        IF C26_CheckFails
        THEN /\ client.phase = "rejected"
             /\ IsDefined(client.error)
             /\ client.error[1].name = "ZiptaxValidationError"
             /\ client.gets = <<>>
             /\ pc = "idle"
             /\ calls = 0
             /\ transport = <<>>
             /\ srCalls = <<>>
             /\ ~ENABLED Enter
        ELSE /\ client.phase = "requesting"
             /\ client.error = Undefined
             /\ Len(client.gets) = 1

C26_Witness ==
    /\ client.phase = "rejected"
    /\ client.method = "getSalesTaxByGeoLocation"
    /\ client.params.lat = Str(Chars("33.65253"))
    /\ client.params.lng = Str(<<>>)
    /\ client.error[1].message = "lng is required"
    /\ calls = 0

\* the apiKey is a string of blanks, tabs or line breaks only, at least one
C27_WhitespaceOnly(k) ==
    IsStr(k) /\ Len(k[2]) > 0 /\ \A i \in 1..Len(k[2]) : k[2][i] \in {" ", "\t", "\n"}

\* the apiKey is undefined, null or the empty string
C27_Missing(k) == k = NoValue \/ k = JsNull \/ (IsStr(k) /\ Len(k[2]) = 0)

\* C27: once new ZiptaxClient(config) has run, an apiKey that is undefined,
\* null or empty has made it throw ZiptaxValidationError "API key is
\* required" and a whitespace-only apiKey ZiptaxValidationError "API key
\* must be a non-empty string", in both cases with no HTTP client created;
\* every other string apiKey has been accepted and the HTTP client exists.
C27_ApiKeyValidatedFirst ==
    client.phase # "config" =>
        LET k == client.config.apiKey
        IN  /\ C27_Missing(k) =>
                /\ client.phase = "failed"
                /\ ~client.httpClient
                /\ client.error[1].name = "ZiptaxValidationError"
                /\ client.error[1].message = "API key is required"
            /\ C27_WhitespaceOnly(k) =>
                /\ client.phase = "failed"
                /\ ~client.httpClient
                /\ client.error[1].name = "ZiptaxValidationError"
                /\ client.error[1].message = "API key must be a non-empty string"
            /\ (IsStr(k) /\ ~C27_Missing(k) /\ ~C27_WhitespaceOnly(k)) =>
                /\ client.phase \in {"ready", "requesting", "rejected"}
                /\ client.httpClient
            /\ client.phase = "failed" => (pc = "idle" /\ client.gets = <<>> /\ calls = 0)

C27_Witness ==
    /\ client.phase = "failed"
    /\ client.config.apiKey = Str(<<" ", " ", " ">>)
    /\ client.error[1].message = "API key must be a non-empty string"
    /\ ~client.httpClient

\* C28: client.getRatesByPostalCode(params) with a postal code of exactly 5
\* digits makes one httpClient.get call to '/request/v60/' with the params
\* {postalcode, format} (format 'json' unless given), and with an empty,
\* non-numeric, 4-digit or 6-digit postal code rejects with a
\* ZiptaxValidationError without any request.
C28_RatesByPostalCode ==
    client.method = "getRatesByPostalCode" =>
        LET code == client.params.postalcode
        IN  IF IsStr(code) /\ Len(code[2]) = 5 /\ \A i \in 1..5 : IsDigit(code[2][i])
            THEN /\ client.phase = "requesting"
                 /\ client.gets =
                        << GetRequest("/request/v60/", TRUE,
                            [NoQuery EXCEPT !.postalcode = code,
                                            !.format = OrDefault(client.params.format, Json)]) >>
            ELSE /\ client.phase = "rejected"
                 /\ client.error[1].name = "ZiptaxValidationError"
                 /\ client.gets = <<>>

\* the i-th invocation of fn has failed
Failed(i) == i \in 1..Len(outcomes) /\ ~outcomes[i].ok

\* C29: shouldRetry has been evaluated exactly once for every failed attempt
\* and never for a successful one: its evaluations are, in order, those of
\* the attempts 1, 2, ..., each with the error of that attempt and its
\* 1-based index; the last attempt of an integer maxAttempts is evaluated
\* too, although the call then rejects whatever the answer.
C29_PredicateEvaluatedOncePerFailure ==
    /\ Len(srCalls) = Cardinality({i \in 1..Len(outcomes) : Failed(i)})
    /\ \A i \in 1..Len(srCalls) :
        /\ Failed(i)
        /\ srCalls[i].attempt = i
        /\ IF Thrown(i).kind = "Error"
           THEN srCalls[i].error = Thrown(i)
           ELSE /\ srCalls[i].error.name = "Error"
                /\ srCalls[i].error.message = String(Thrown(i).value)
                /\ srCalls[i].error.seq = i
    /\ \A i \in 1..Len(outcomes) :
        outcomes[i].ok => (i = Len(outcomes) /\ Len(srCalls) = i - 1 /\ pc = "resolved")
    /\ (IntegerMaxAttempts /\ Failed(N)) =>
        /\ Len(srCalls) = N
        /\ pc = "rejected"
        /\ via = "throw"

C29_Witness ==
    /\ pc = "rejected"
    /\ IntegerMaxAttempts /\ N = 3
    /\ Len(srCalls) = 3
    /\ srCalls[3].attempt = 3
    /\ srCalls[3].result
    /\ srCalls[3].error = Thrown(3)
    /\ Thrown(3).name = "ZiptaxAPIError"

\* the i-th invocation of fn rejected with a value that is not an Error
RejectedWithNonError(i) == Failed(i) /\ Thrown(i).kind = "raw"

\* C30: when fn rejects with a value that is not an Error instance, the
\* value shouldRetry receives for that attempt is a new plain Error whose
\* message is String(value), never the raw value, and when the call stops
\* at that attempt it rejects with that same wrapper.
C30_NonErrorIsWrapped ==
    \A i \in 1..Len(outcomes) :
        RejectedWithNonError(i) =>
            /\ srCalls[i].error.kind = "Error"
            /\ srCalls[i].error.name = "Error"
            /\ srCalls[i].error.message = String(Thrown(i).value)
            /\ srCalls[i].error # Thrown(i)
            /\ i = Len(outcomes) => lastError = Some(srCalls[i].error)
            /\ (i = Len(outcomes) /\ pc = "rejected" /\ via = "throw") =>
                result = Some(srCalls[i].error)

C30_Witness ==
    /\ pc = "rejected"
    /\ via = "throw"
    /\ Len(outcomes) = 2
    /\ RejectedWithNonError(1) /\ Thrown(1).value = <<"number", 42>>
    /\ srCalls[1].error.message = "42"
    /\ RejectedWithNonError(2) /\ Thrown(2).value = NoValue
    /\ result[1].message = "undefined"
    /\ result[1].name = "Error"

C33_EventuallyTerminates == <>Terminated

C33_Witness ==
    /\ pc = "rejected"
    /\ via = "throw"
    /\ opts.shouldRetry = "always"
    /\ IntegerMaxAttempts /\ N = 2
    /\ calls = 2
    /\ srCalls[2].result
    /\ elapsed = <<0>>

\* C34: two calls of retryWithBackoff with the same policy whose operations
\* have settled in the same way so far have computed exactly the same
\* delays, and once both have terminated they have invoked fn equally often
\* and settled alike.
C34_BackoffDeterministic ==
    \A i, j \in Invocations :
        (inv[i].pc # "called" /\ inv[j].pc # "called"
                /\ inv[i].outcomes = inv[j].outcomes) =>
            /\ inv[i].opts = inv[j].opts
            /\ inv[i].delays = inv[j].delays
            /\ (inv[i].pc \in {"resolved", "rejected"}
                    /\ inv[j].pc \in {"resolved", "rejected"}) =>
                /\ inv[i].calls = inv[j].calls
                /\ inv[i].pc = inv[j].pc
                /\ inv[i].result = inv[j].result

C34_Witness ==
    /\ inv # <<>>
    /\ inv[1].pc = "resolved"
    /\ inv[2].pc = "resolved"
    /\ inv[1].outcomes = inv[2].outcomes
    /\ Len(inv[1].outcomes) = 3
    /\ inv[1].delays = <<1000, 2000>>
    /\ inv[2].delays = <<1000, 2000>>

\* C35: for every transport failure that carries a response, the statusCode
\* of the error handleError made of it is the HTTP status of that response,
\* for every status, 403 included.
C35_StatusCodeIsResponseStatus ==
    \A i \in 1..Len(transport) :
        HasResponse(i) => Thrown(i).statusCode = Some(StatusOf(i))

\* C36: the delay after a failed attempt is computed from the policy and the
\* attempt index alone: after a failure whose error carries a retryAfter
\* hint (a ZiptaxRateLimitError retried by a custom shouldRetry) the delay,
\* and the timer started for it, is
\* min(initialDelay * backoffMultiplier^(attempt-1), maxDelay), as it is
\* after the failure of the same attempt with any other error.
C36_DelayIgnoresRetryAfter ==
    \A k \in 1..Len(delays) :
        LET backoff == Min(opts.initialDelay * MathPow(opts.backoffMultiplier, k - 1),
                           opts.maxDelay)
        IN  IsDefined(srCalls[k].error.retryAfter) =>
                /\ srCalls[k].error.name = "ZiptaxRateLimitError"
                /\ srCalls[k].attempt = k
                /\ delays[k] = backoff
                /\ (pc = "sleeping" /\ k = Len(delays)) => timer = Some(backoff)

C36_Witness ==
    /\ pc = "sleeping"
    /\ Len(delays) = 2
    /\ srCalls[2].error.retryAfter = Number(60)
    /\ opts.shouldRetry = "always"
    /\ opts.initialDelay = 500 /\ opts.backoffMultiplier = 100 /\ opts.maxDelay = 2000
    /\ timer = Some(2000)

\* the policy of the running call has initialDelay >= 0,
\* backoffMultiplier >= 1 and maxDelay >= initialDelay
WellFormedDelays ==
    /\ opts.initialDelay >= 0
    /\ opts.backoffMultiplier >= 1
    /\ opts.maxDelay >= opts.initialDelay

\* C37: under a policy with initialDelay >= 0, backoffMultiplier >= 1 and
\* maxDelay >= initialDelay, every delay of a call lies between initialDelay
\* and maxDelay, no delay is shorter than the one before it, and every delay
\* after one that equals maxDelay equals maxDelay.
C37_DelaysBoundedAndMonotone ==
    (pc # "called" /\ WellFormedDelays) =>
        /\ \A k \in 1..Len(delays) :
            opts.initialDelay <= delays[k] /\ delays[k] <= opts.maxDelay
        /\ \A k \in 1..(Len(delays) - 1) :
            /\ delays[k] <= delays[k + 1]
            /\ delays[k] = opts.maxDelay => delays[k + 1] = opts.maxDelay

C37_Witness ==
    /\ pc # "called"
    /\ WellFormedDelays
    /\ opts.initialDelay = 500 /\ opts.backoffMultiplier = 100 /\ opts.maxDelay = 2000
    /\ Len(delays) = 2
    /\ delays[1] < delays[2]
    /\ delays[2] = opts.maxDelay

\* a delay that has reached maxDelay is followed by a delay of maxDelay
C37_WitnessStaysAtMaxDelay ==
    /\ pc # "called"
    /\ opts.initialDelay = 500 /\ opts.backoffMultiplier = 100 /\ opts.maxDelay = 500
    /\ delays = <<500, 500>>

\* the caller's options object no longer holds the policy the running call
\* started with
OptionsMutated == pc # "called" /\ MergeOptions(options) # opts

\* C38: the policy of a call is the copy made when the call starts: no step,
\* and no assignment of the caller to the options object it passed, changes
\* it afterwards, and the attempts and delays of the call follow that copy:
\* every delay is the delay of its attempt under the copy, fn is never
\* invoked more often than the copy's maxAttempts, and a call whose
\* attempts all failed retryably has invoked fn exactly that often.
C38_PolicyFixedAtStart ==
    /\ [][/\ (pc = "called" /\ pc' # "called") => opts' = MergeOptions(options)
          /\ pc # "called" => opts' = opts]_vars
    /\ [](pc # "called" =>
            /\ \A k \in 1..Len(delays) : delays[k] = calculateDelay(k, opts)
            /\ calls * Scale <= opts.maxAttempts[1]
            /\ (pc = "rejected" /\ PredicateAlwaysTrue) =>
                    calls * Scale = opts.maxAttempts[1])

C38_Witness ==
    /\ OptionsMutated
    /\ pc = "rejected"
    /\ opts.maxAttempts = Some(MaxAttemptsBound * Scale)
    /\ opts.initialDelay = 1000
    /\ options = BuildOptions({Some(Scale)}, {500}, {}, {}, {})
    /\ calls = MaxAttemptsBound
    /\ Len(delays) = MaxAttemptsBound - 1
    /\ delays[1] = 1000

\* C39: a call whose options object has the field maxAttempts present with
\* the value undefined runs under the default maxAttempts, as a call that
\* omits the field does, and invokes fn at least once before it terminates.
C39_UndefinedFieldIsOmitted ==
    (/\ pc # "called"
     /\ "maxAttempts" \in DOMAIN options
     /\ options.maxAttempts = Undefined) =>
        /\ opts.maxAttempts = DEFAULT_RETRY_OPTIONS.maxAttempts
        /\ Terminated => calls >= 1

====
